---- MODULE Spec2Model ----
(***************************************************************************)
(* Model of the streaming analytics consumer                               *)
(* (src/streaming-kafka/analytics_consumer/main.py): the DuplicateFilter,  *)
(* the UniqueOrderWindow and FailureWindow, the MetricsAggregator and the  *)
(* KafkaAnalyticsWorker consume loop.                                      *)
(*                                                                         *)
(* Time is a discrete clock `now` (time.time()), advanced by Tick and by   *)
(* the clock reads inside snapshot().  Floats that the code computes by    *)
(* division are kept as exact fractions [num, den].                        *)
(***************************************************************************)
EXTENDS Integers, Sequences, FiniteSets, TLC

VARIABLES
    now,        \* time.time()
    deduper,    \* KafkaAnalyticsWorker.deduper (a DuplicateFilter)
    metrics,    \* the MetricsAggregator
    pc,         \* where the worker thread is in KafkaAnalyticsWorker.run
    stop,       \* KafkaAnalyticsWorker._stop
    consumer,   \* KafkaAnalyticsWorker._consumer: None, "open" or "closed"
    msg,        \* the message the last poll returned
    err,        \* the exception that ended run(), if any
    log,        \* the bus: the messages of the subscribed log, in offset order
    pos,        \* the consumer's position: messages 1..pos were delivered
    committed,  \* the committed offset: messages 1..committed are committed
    ret,        \* history: the last call made and what it returned
    lastFalse,  \* history: per identity, when register last returned false
    trackedAt,  \* history: per order id, when it was last tracked
    last,       \* history: the last message handled and how it ended
    recorded,   \* history: offsets for which a record_* call has completed
    recordedAt, \* history: per identity, when a delivery last updated a
                \* business metric
    inventoryLog, \* history: the record_inventory calls made: how many, how
                \* many of them flagged failure, when the first and the last
    lock,       \* MetricsAggregator._lock: the thread that holds it, or None
    call,       \* the record_* call the worker thread is inside, or None
    completed,  \* history: the aggregator as the completed record_* calls,
                \* each applied as a whole, leave it
    process,    \* the process around the threads: its settings, where its
                \* main thread is, STOP_EVENT, the threads started and
                \* joined, the PeriodicReporter thread
    exit,       \* the exit status of the process, None while it runs
    amqp,       \* src/async-rabbitmq: the broker's queues and the inventory
                \* service (its database, its consumer)
    rest        \* src/sync-rest: the order service, the inventory service
                \* and the notification service

workerVars == <<pc, stop, consumer, msg, err, log, pos, committed,
                last, recorded, recordedAt>>

lockVars == <<lock, call, completed>>

processVars == <<process, exit>>

\* the two other labs of the repository
labVars == <<amqp, rest>>

vars == <<now, deduper, metrics, ret, lastFalse, trackedAt, inventoryLog,
         workerVars, lockVars, processVars, labVars>>

(* ------------------------------ bounds --------------------------------- *)

\* the clock runs over 0..MaxTime
MaxTime == 3
\* configured ttl / window sizes are drawn from 0..MaxWindow (0 stands for
\* any configured value below 1)
MaxWindow == 2
\* env["WINDOW_SEC"] of the worker process
WindowSec == 1

\* at most MaxRecords record_* calls are made on a stand-alone aggregator
MaxRecords == 3
\* the clock advances by at most MaxSkew between two clock reads of one call
MaxSkew == 1

\* the bus holds at most MaxLog messages
MaxLog == 2

\* at most MaxPublished messages are published to the orders exchange
MaxPublished == 2
\* the quantity init_db seeds every item with, scaled down from 100
Stock == 2
\* at most MaxOrders order requests are made
MaxOrders == 3

\* order identifiers offered to the stand-alone aggregator
OrderIds == {"o1", "o2"}

\* identities offered to the stand-alone DuplicateFilter
FilterIds == {"id1", "id2"}

\* "no value": Python None, an absent dict key, an identity never registered
None == "None"
NoTime == -1

(* ------------------------------ helpers -------------------------------- *)

Max(a, b) == IF a >= b THEN a ELSE b

\* dict.pop(key, None)
Pop(d, k) == [x \in (DOMAIN d) \ {k} |-> d[x]]

\* d[k] = v
Put(d, k, v) == [x \in (DOMAIN d) \cup {k} |-> IF x = k THEN v ELSE d[x]]

EmptyDict == [x \in {} |-> 0]

\* a float kept as an exact fraction
Frac(n, d) == [num |-> n, den |-> d]
FracEq(a, b) == a.num * b.den = b.num * a.den

(* --------------------------- DuplicateFilter --------------------------- *)

\* DuplicateFilter.__init__
DuplicateFilter(ttl_seconds) ==
    [ttl |-> Max(ttl_seconds, 1), seen |-> EmptyDict, order |-> <<>>,
     lock |-> None]

\* a filter that also drops the entry registered exactly ttl seconds ago
DuplicateFilter_expired_inclusive(ts, cutoff) == ts <= cutoff

\* the loop condition of DuplicateFilter._evict
DuplicateFilter_expired(ts, cutoff) == ts < cutoff

RECURSIVE DuplicateFilter_evict(_, _)
\* DuplicateFilter._evict
DuplicateFilter_evict(f, t) ==
    LET cutoff == t - f.ttl IN
    IF f.order # <<>> /\ DuplicateFilter_expired(Head(f.order)[1], cutoff)
    THEN DuplicateFilter_evict(
             [f EXCEPT !.order = Tail(@), !.seen = Pop(@, Head(f.order)[2])], t)
    ELSE f

\* a register that looks the identity up without evicting first
DuplicateFilter_register_stale(f, event_id, t) ==
    IF event_id \in DOMAIN f.seen
    THEN [result |-> TRUE, filter |-> f]
    ELSE [result |-> FALSE,
          filter |-> [f EXCEPT !.seen = Put(@, event_id, t),
                               !.order = Append(@, <<t, event_id>>)]]

\* a register that never reports a duplicate
DuplicateFilter_register_never(f, event_id, t) ==
    LET g == DuplicateFilter_evict(f, t) IN
    [result |-> FALSE,
     filter |-> [g EXCEPT !.seen = Put(@, event_id, t),
                          !.order = Append(@, <<t, event_id>>)]]

\* a register that restarts the ttl of an identity it reports as a duplicate
DuplicateFilter_register_refreshing(f, event_id, t) ==
    LET g == DuplicateFilter_evict(f, t) IN
    [result |-> event_id \in DOMAIN g.seen,
     filter |-> [g EXCEPT !.seen = Put(@, event_id, t),
                          !.order = Append(@, <<t, event_id>>)]]

\* DuplicateFilter.register: [result, filter after the call]
DuplicateFilter_register(f, event_id, t) ==
    LET g == DuplicateFilter_evict(f, t) IN
    IF event_id \in DOMAIN g.seen
    THEN [result |-> TRUE, filter |-> g]
    ELSE [result |-> FALSE,
          filter |-> [g EXCEPT !.seen = Put(@, event_id, t),
                               !.order = Append(@, <<t, event_id>>)]]

(* -------------------------- UniqueOrderWindow -------------------------- *)

\* a window that takes the configured size as it is
UniqueOrderWindow_unclamped(window_seconds) ==
    [window |-> window_seconds, entries |-> EmptyDict, order |-> <<>>]

\* UniqueOrderWindow.__init__
UniqueOrderWindow(window_seconds) ==
    [window |-> Max(window_seconds, 1), entries |-> EmptyDict, order |-> <<>>]

\* an eviction that drops the key whatever timestamp the map holds for it
UniqueOrderWindow_drop_any(w, ts, order_id) ==
    [w EXCEPT !.order = Tail(@), !.entries = Pop(@, order_id)]

\* an eviction that pops the queue and leaves the map alone
UniqueOrderWindow_drop_queue_only(w, ts, order_id) ==
    [w EXCEPT !.order = Tail(@)]

\* the body of the loop of UniqueOrderWindow._evict: pop the head of the queue
\* and drop the key only if the map still holds this very timestamp
UniqueOrderWindow_drop(w, ts, order_id) ==
    IF order_id \in DOMAIN w.entries /\ w.entries[order_id] = ts
    THEN [w EXCEPT !.order = Tail(@), !.entries = Pop(@, order_id)]
    ELSE [w EXCEPT !.order = Tail(@)]

\* a window that keeps entries one second too long
UniqueOrderWindow_cutoff_late(w, t) == t - w.window - 1

\* cutoff = now - self.window
UniqueOrderWindow_cutoff(w, t) == t - w.window

RECURSIVE UniqueOrderWindow_evict(_, _)
\* UniqueOrderWindow._evict
UniqueOrderWindow_evict(w, t) ==
    IF w.order # <<>> /\ Head(w.order)[1] < UniqueOrderWindow_cutoff(w, t)
    THEN UniqueOrderWindow_evict(
             UniqueOrderWindow_drop(w, Head(w.order)[1], Head(w.order)[2]), t)
    ELSE w

\* `not order_id`: None and the empty string are falsy
Falsy(order_id) == order_id = None \/ order_id = ""

\* a track that keeps the timestamp of a key the window already holds
UniqueOrderWindow_track_keeping_first(w, order_id, t) ==
    IF Falsy(order_id) THEN w
    ELSE UniqueOrderWindow_evict(
             [w EXCEPT !.entries = IF order_id \in DOMAIN @ THEN @
                                   ELSE Put(@, order_id, t),
                       !.order = Append(@, <<t, order_id>>)], t)

\* UniqueOrderWindow.track
UniqueOrderWindow_track(w, order_id, t) ==
    IF Falsy(order_id) THEN w
    ELSE UniqueOrderWindow_evict(
             [w EXCEPT !.entries = Put(@, order_id, t),
                       !.order = Append(@, <<t, order_id>>)], t)

\* UniqueOrderWindow.per_minute: [result, window after the call]
UniqueOrderWindow_per_minute(w, t) ==
    LET v == UniqueOrderWindow_evict(w, t) IN
    [result |-> Frac(Cardinality(DOMAIN v.entries) * 60, v.window), window |-> v]

\* UniqueOrderWindow.active_orders: [result, window after the call]
UniqueOrderWindow_active_orders(w, t) ==
    LET v == UniqueOrderWindow_evict(w, t) IN
    [result |-> Cardinality(DOMAIN v.entries), window |-> v]

(* ----------------------------- FailureWindow --------------------------- *)

\* FailureWindow.__init__
FailureWindow(window_seconds) ==
    [window |-> Max(window_seconds, 1), events |-> <<>>, failures |-> 0]

RECURSIVE FailureWindow_evict_keeping_count(_, _)
\* an eviction that drops expired events without touching the failure count
FailureWindow_evict_keeping_count(w, t) ==
    LET cutoff == t - w.window IN
    IF w.events # <<>> /\ Head(w.events)[1] < cutoff
    THEN FailureWindow_evict_keeping_count([w EXCEPT !.events = Tail(@)], t)
    ELSE w

RECURSIVE FailureWindow_evict(_, _)
\* FailureWindow._evict
FailureWindow_evict(w, t) ==
    LET cutoff == t - w.window IN
    IF w.events # <<>> /\ Head(w.events)[1] < cutoff
    THEN FailureWindow_evict(
             [w EXCEPT !.events = Tail(@),
                       !.failures = IF Head(w.events)[2]
                                    THEN Max(@ - 1, 0) ELSE @], t)
    ELSE w

\* a track that counts every event as a failure
FailureWindow_track_all_failures(w, is_failure, t) ==
    FailureWindow_evict(
        [w EXCEPT !.events = Append(@, <<t, is_failure>>),
                  !.failures = @ + 1], t)

\* FailureWindow.track
FailureWindow_track(w, is_failure, t) ==
    FailureWindow_evict(
        [w EXCEPT !.events = Append(@, <<t, is_failure>>),
                  !.failures = IF is_failure THEN @ + 1 ELSE @], t)

\* FailureWindow.totals: [total, failures, window after the call]
FailureWindow_totals(w, t) ==
    LET v == FailureWindow_evict(w, t) IN
    [total |-> Len(v.events), failures |-> v.failures, window |-> v]

\* FailureWindow.failure_rate_pct: [result, window after the call, the line
\* it prints to the console]
FailureWindow_failure_rate_pct(w, t) ==
    LET r == FailureWindow_totals(w, t) IN
    [result |-> IF r.total # 0 THEN Frac(r.failures * 100, r.total)
                ELSE Frac(0, 1),
     window |-> r.window,
     console |-> <<"Total and failures: ", r.total, "---", r.failures>>]

(* --------------------------- MetricsAggregator ------------------------- *)

\* MetricsAggregator.__init__ (int(window_seconds) truncates; the windows clamp)
MetricsAggregator(window_seconds) ==
    [order_window   |-> UniqueOrderWindow(window_seconds),
     failure_window |-> FailureWindow(window_seconds),
     window_seconds |-> window_seconds,
     stats          |-> [orders |-> 0, inventory |-> 0, duplicates |-> 0]]

\* MetricsAggregator.record_order
MetricsAggregator_record_order(m, order_id, t) ==
    [m EXCEPT !.stats.orders = @ + 1,
              !.order_window = UniqueOrderWindow_track(@, order_id, t)]

\* MetricsAggregator.record_inventory
MetricsAggregator_record_inventory(m, is_failure, t) ==
    [m EXCEPT !.stats.inventory = @ + 1,
              !.failure_window = FailureWindow_track(@, is_failure, t)]

\* MetricsAggregator.record_duplicate
MetricsAggregator_record_duplicate(m) ==
    [m EXCEPT !.stats.duplicates = @ + 1]

\* a snapshot that counts the queries it serves in a lifetime counter
MetricsAggregator_snapshot_counting(m, t1, t2, t3, t4) ==
    LET tot  == FailureWindow_totals(m.failure_window, t1)
        pm   == UniqueOrderWindow_per_minute(m.order_window, t2)
        rate == FailureWindow_failure_rate_pct(tot.window, t3)
    IN [snapshot |-> [orders_per_min   |-> pm.result,
                      inventory_events |-> tot.total,
                      failures         |-> tot.failures,
                      failure_rate_pct |-> rate.result,
                      window_seconds   |-> m.window_seconds,
                      generated_at     |-> t4],
        metrics  |-> [m EXCEPT !.order_window = pm.window,
                               !.failure_window = rate.window,
                               !.stats.duplicates = @ + 1],
        console  |-> <<rate.console>>]

\* MetricsAggregator.snapshot, whose four clock reads happen at t1 <= t2 <= t3
\* <= t4: totals() at t1, per_minute() at t2, failure_rate_pct() at t3 and
\* generated_at at t4.  [snapshot, aggregator after the call, the lines
\* printed to the console inside `with self._lock`]
MetricsAggregator_snapshot(m, t1, t2, t3, t4) ==
    LET tot  == FailureWindow_totals(m.failure_window, t1)
        pm   == UniqueOrderWindow_per_minute(m.order_window, t2)
        rate == FailureWindow_failure_rate_pct(tot.window, t3)
    IN [snapshot |-> [orders_per_min   |-> pm.result,
                      inventory_events |-> tot.total,
                      failures         |-> tot.failures,
                      failure_rate_pct |-> rate.result,
                      window_seconds   |-> m.window_seconds,
                      generated_at     |-> t4],
        metrics  |-> [m EXCEPT !.order_window = pm.window,
                               !.failure_window = rate.window],
        console  |-> <<rate.console>>]

(* ------------------------------- clock --------------------------------- *)

\* time passes.  The worker thread reads the clock only while it handles a
\* message, so for it the time that passes anywhere in its loop is accounted
\* for while it polls.
Tick ==
    /\ now < MaxTime
    /\ pc \in {None, "poll"}
    /\ now' = now + 1
    /\ UNCHANGED <<labVars, deduper, metrics, ret, lastFalse, trackedAt, workerVars, processVars, inventoryLog,
                   lockVars>>

(* ---------------- specification: the DuplicateFilter alone ------------- *)

\* no process around the component or the worker
ProcessAbsent == process = None /\ exit = None

\* the analytics consumer on its own, without the other labs
LabsAbsent == amqp = None /\ rest = None

\* no worker thread: the component is exercised on its own
WorkerAbsent ==
    /\ pc = None /\ stop = FALSE /\ consumer = None /\ msg = None
    /\ err = None /\ log = <<>> /\ pos = 0 /\ committed = 0
    /\ last = None /\ recorded = {} /\ recordedAt = None
    /\ ProcessAbsent
    /\ LabsAbsent

InitFilter ==
    /\ WorkerAbsent
    /\ now = 0
    /\ \E ttl \in 0..MaxWindow : deduper = DuplicateFilter(ttl)
    /\ metrics = None
    /\ ret = [op |-> "none"]
    /\ lastFalse = [i \in FilterIds |-> NoTime]
    /\ trackedAt = None
    /\ inventoryLog = None
    /\ lock = None /\ call = None /\ completed = None

\* one register(event_id) call at the current clock value
Register(event_id) ==
    LET r == DuplicateFilter_register(deduper, event_id, now) IN
    /\ deduper' = r.filter
    /\ ret' = [op |-> "register", id |-> event_id, at |-> now,
               result |-> r.result, prev |-> lastFalse[event_id]]
    /\ lastFalse' = IF r.result THEN lastFalse
                    ELSE [lastFalse EXCEPT ![event_id] = now]
    /\ UNCHANGED <<labVars, now, metrics, trackedAt, workerVars, processVars, inventoryLog,
                   lockVars>>

NextFilter ==
    \/ Tick
    \/ \E event_id \in FilterIds : Register(event_id)

SpecFilter == InitFilter /\ [][NextFilter]_vars

(* --------- specification: the MetricsAggregator and its windows -------- *)

InitMetrics ==
    /\ WorkerAbsent
    /\ now = 0
    /\ deduper = None
    /\ \E w \in 0..MaxWindow : metrics = MetricsAggregator(w)
    /\ ret = [op |-> "none"]
    /\ lastFalse = None
    /\ trackedAt = [k \in OrderIds |-> NoTime]
    /\ inventoryLog = [n |-> 0, f |-> 0, first |-> NoTime, last |-> NoTime]
    /\ lock = None /\ call = None /\ completed = None

Records == metrics.stats.orders + metrics.stats.inventory + metrics.stats.duplicates

\* record_order(order_id) at the current clock value
RecordOrder(order_id) ==
    /\ Records < MaxRecords
    /\ metrics' = MetricsAggregator_record_order(metrics, order_id, now)
    /\ trackedAt' = IF order_id \in OrderIds
                    THEN [trackedAt EXCEPT ![order_id] = now] ELSE trackedAt
    /\ ret' = [op |-> "record_order", at |-> now]
    /\ UNCHANGED <<labVars, now, deduper, lastFalse, workerVars, processVars, inventoryLog,
                   lockVars>>

\* record_inventory(is_failure) at the current clock value
RecordInventory(is_failure) ==
    /\ Records < MaxRecords
    /\ metrics' = MetricsAggregator_record_inventory(metrics, is_failure, now)
    /\ inventoryLog' = [n     |-> inventoryLog.n + 1,
                        f     |-> inventoryLog.f + (IF is_failure THEN 1 ELSE 0),
                        first |-> IF inventoryLog.n = 0 THEN now
                                  ELSE inventoryLog.first,
                        last  |-> now]
    /\ ret' = [op |-> "record_inventory", at |-> now]
    /\ UNCHANGED <<labVars, now, deduper, lastFalse, trackedAt, workerVars, processVars, lockVars>>

\* record_duplicate()
RecordDuplicate ==
    /\ Records < MaxRecords
    /\ metrics' = MetricsAggregator_record_duplicate(metrics)
    /\ ret' = [op |-> "record_duplicate", at |-> now]
    /\ UNCHANGED <<labVars, now, deduper, lastFalse, trackedAt, workerVars, processVars, inventoryLog,
                   lockVars>>

\* order_window.active_orders()
ActiveOrders ==
    LET r == UniqueOrderWindow_active_orders(metrics.order_window, now) IN
    /\ metrics' = [metrics EXCEPT !.order_window = r.window]
    /\ ret' = [op |-> "active_orders", at |-> now, result |-> r.result]
    /\ UNCHANGED <<labVars, now, deduper, lastFalse, trackedAt, workerVars, processVars, inventoryLog,
                   lockVars>>

\* order_window.per_minute()
PerMinute ==
    LET r == UniqueOrderWindow_per_minute(metrics.order_window, now) IN
    /\ metrics' = [metrics EXCEPT !.order_window = r.window]
    /\ ret' = [op |-> "per_minute", at |-> now, result |-> r.result]
    /\ UNCHANGED <<labVars, now, deduper, lastFalse, trackedAt, workerVars, processVars, inventoryLog,
                   lockVars>>

\* failure_window.totals()
Totals ==
    LET r == FailureWindow_totals(metrics.failure_window, now) IN
    /\ metrics' = [metrics EXCEPT !.failure_window = r.window]
    /\ ret' = [op |-> "totals", at |-> now,
               total |-> r.total, failures |-> r.failures]
    /\ UNCHANGED <<labVars, now, deduper, lastFalse, trackedAt, workerVars, processVars, inventoryLog,
                   lockVars>>

\* failure_window.failure_rate_pct()
FailureRatePct ==
    LET r == FailureWindow_failure_rate_pct(metrics.failure_window, now) IN
    /\ metrics' = [metrics EXCEPT !.failure_window = r.window]
    /\ ret' = [op |-> "failure_rate_pct", at |-> now, result |-> r.result]
    /\ UNCHANGED <<labVars, now, deduper, lastFalse, trackedAt, workerVars, processVars, inventoryLog,
                   lockVars>>

\* snapshot(); the clock may advance between the clock reads of the call
Snapshot ==
    \E d1, d2, d3 \in 0..MaxSkew :
        LET t1 == now
            t2 == t1 + d1
            t3 == t2 + d2
            t4 == t3 + d3
            r  == MetricsAggregator_snapshot(metrics, t1, t2, t3, t4)
        IN /\ t4 <= MaxTime
           /\ metrics' = r.metrics
           /\ now' = t4
           /\ ret' = [op |-> "snapshot", at |-> t1, snapshot |-> r.snapshot]
           /\ UNCHANGED <<labVars, deduper, lastFalse, trackedAt, workerVars, processVars, inventoryLog,
                   lockVars>>

\* the aggregator as the worker and the readers use it
NextMetrics ==
    \/ Tick
    \/ \E order_id \in OrderIds \cup {None, ""} : RecordOrder(order_id)
    \/ \E is_failure \in BOOLEAN : RecordInventory(is_failure)
    \/ RecordDuplicate
    \/ Snapshot

SpecMetrics == InitMetrics /\ [][NextMetrics]_vars

\* the unique-order window of the aggregator, with its two reads
NextOrderWindow ==
    \/ Tick
    \/ \E order_id \in OrderIds \cup {None, ""} : RecordOrder(order_id)
    \/ ActiveOrders
    \/ PerMinute

SpecOrderWindow == InitMetrics /\ [][NextOrderWindow]_vars

\* the failure window of the aggregator, with its two reads
NextFailureWindow ==
    \/ Tick
    \/ \E is_failure \in BOOLEAN : RecordInventory(is_failure)
    \/ Totals
    \/ FailureRatePct

SpecFailureWindow == InitMetrics /\ [][NextFailureWindow]_vars

\* both windows of the aggregator, with all their reads
NextWindows ==
    \/ Tick
    \/ \E order_id \in OrderIds \cup {None, ""} : RecordOrder(order_id)
    \/ \E is_failure \in BOOLEAN : RecordInventory(is_failure)
    \/ ActiveOrders
    \/ PerMinute
    \/ Totals
    \/ FailureRatePct

SpecWindows == InitMetrics /\ [][NextWindows]_vars

(* ---- specification: the filter and the unique-order window together ---- *)

\* the filter and the aggregator as main() builds them, both from the one
\* configured window size, under one clock
InitComponents ==
    /\ WorkerAbsent
    /\ now = 0
    /\ \E w \in {WindowSec, MaxWindow} :
           /\ deduper = DuplicateFilter(w)
           /\ metrics = MetricsAggregator(w)
    /\ ret = [op |-> "none"]
    /\ lastFalse = [i \in FilterIds |-> NoTime]
    /\ trackedAt = [k \in OrderIds |-> NoTime]
    /\ inventoryLog = [n |-> 0, f |-> 0, first |-> NoTime, last |-> NoTime]
    /\ lock = None /\ call = None /\ completed = None

\* the calls that reach the two queues: register on the filter, track (by
\* record_order) and a read of the window (active_orders; per_minute evicts
\* in the same way), in any order
NextComponents ==
    \/ Tick
    \/ \E event_id \in FilterIds : Register(event_id)
    \/ \E order_id \in OrderIds \cup {None, ""} : RecordOrder(order_id)
    \/ ActiveOrders

SpecComponents == InitComponents /\ [][NextComponents]_vars

(* ------- specification: the aggregator under its lock, with readers ---- *)

\* the threads that call snapshot(): the PeriodicReporter and a request
\* thread of the HttpMetricsServer
Readers == {"reporter", "query"}

\* a lock that excludes nobody
RLock_acquire_unlocked(owner, thread) == TRUE

\* threading.RLock: `with self._lock` is entered when the lock is free or
\* already held by the entering thread
RLock_acquire(owner, thread) == owner \in {None, thread}

\* FailureWindow.track, first statement: self._events.append((now, is_failure))
FailureWindow_append(w, is_failure, t) ==
    [w EXCEPT !.events = Append(@, <<t, is_failure>>)]

\* FailureWindow.track, the rest: the failure count and the eviction
FailureWindow_count(w, is_failure, t) ==
    FailureWindow_evict(
        [w EXCEPT !.failures = IF is_failure THEN @ + 1 ELSE @], t)

\* the worker thread is inside no record_* call
NoCall == [op |-> None, arg |-> None, step |-> "idle", t |-> NoTime]

InitLock ==
    /\ WorkerAbsent
    /\ now = 0
    /\ deduper = None
    /\ metrics = MetricsAggregator(WindowSec)
    /\ ret = [op |-> "none"]
    /\ lastFalse = None /\ trackedAt = None /\ inventoryLog = None
    /\ lock = None /\ call = NoCall
    /\ completed = metrics

\* the worker thread enters record_order / record_inventory /
\* record_duplicate: with self._lock
AcquireRecord(op, arg) ==
    /\ call.step = "idle"
    /\ Records < MaxRecords
    /\ RLock_acquire(lock, "worker")
    /\ lock' = "worker"
    /\ call' = [op |-> op, arg |-> arg, step |-> "locked", t |-> NoTime]
    /\ UNCHANGED <<labVars, now, deduper, metrics, ret, lastFalse, trackedAt,
                   inventoryLog, workerVars, processVars, completed>>

\* self.stats[...] += 1; record_duplicate then leaves the lock
CountRecord ==
    /\ call.step = "locked"
    /\ CASE call.op = "record_order" ->
                /\ metrics' = [metrics EXCEPT !.stats.orders = @ + 1]
                /\ call' = [call EXCEPT !.step = "counted"]
                /\ UNCHANGED <<lock, completed>>
         [] call.op = "record_inventory" ->
                /\ metrics' = [metrics EXCEPT !.stats.inventory = @ + 1]
                /\ call' = [call EXCEPT !.step = "counted"]
                /\ UNCHANGED <<lock, completed>>
         [] call.op = "record_duplicate" ->
                /\ metrics' = [metrics EXCEPT !.stats.duplicates = @ + 1]
                /\ call' = NoCall
                /\ lock' = None
                /\ completed' = MetricsAggregator_record_duplicate(completed)
    /\ UNCHANGED <<labVars, now, deduper, ret, lastFalse, trackedAt, inventoryLog,
                   workerVars, processVars>>

\* record_order: self.order_window.track(order_id), then the lock is left
TrackOrder ==
    /\ call.op = "record_order" /\ call.step = "counted"
    /\ metrics' = [metrics EXCEPT !.order_window =
                       UniqueOrderWindow_track(@, call.arg, now)]
    /\ call' = NoCall
    /\ lock' = None
    /\ completed' = MetricsAggregator_record_order(completed, call.arg, now)
    /\ UNCHANGED <<labVars, now, deduper, ret, lastFalse, trackedAt, inventoryLog,
                   workerVars, processVars>>

\* record_inventory: failure_window.track(is_failure) reads the clock and
\* appends the event
AppendFlag ==
    /\ call.op = "record_inventory" /\ call.step = "counted"
    /\ metrics' = [metrics EXCEPT !.failure_window =
                       FailureWindow_append(@, call.arg, now)]
    /\ call' = [call EXCEPT !.step = "appended", !.t = now]
    /\ UNCHANGED <<labVars, now, deduper, ret, lastFalse, trackedAt, inventoryLog,
                   workerVars, processVars, lock, completed>>

\* record_inventory: failure_window.track(is_failure) updates the failure
\* count and evicts, then the lock is left
CountFlag ==
    /\ call.op = "record_inventory" /\ call.step = "appended"
    /\ metrics' = [metrics EXCEPT !.failure_window =
                       FailureWindow_count(@, call.arg, call.t)]
    /\ call' = NoCall
    /\ lock' = None
    /\ completed' =
           MetricsAggregator_record_inventory(completed, call.arg, call.t)
    /\ UNCHANGED <<labVars, now, deduper, ret, lastFalse, trackedAt, inventoryLog,
                   workerVars, processVars>>

\* a reader thread calls snapshot(): with self._lock, the whole body, its
\* clock reads all made at one clock value; io is the I/O the thread did
\* between entering and leaving the lock
ReadSnapshot(thread) ==
    LET r == MetricsAggregator_snapshot(metrics, now, now, now, now)
        e == MetricsAggregator_snapshot(completed, now, now, now, now)
    IN /\ RLock_acquire(lock, thread)
       /\ metrics' = r.metrics
       /\ ret' = [op |-> "snapshot", at |-> now, by |-> thread,
                  snapshot |-> r.snapshot, expected |-> e.snapshot,
                  inflight |-> call.step, io |-> r.console]
       /\ UNCHANGED <<labVars, now, deduper, lastFalse, trackedAt, inventoryLog,
                      workerVars, lockVars, processVars>>

\* the worker thread recording while the reader threads take snapshots
NextLock ==
    \/ Tick
    \/ \E order_id \in OrderIds \cup {None} :
           AcquireRecord("record_order", order_id)
    \/ \E is_failure \in BOOLEAN : AcquireRecord("record_inventory", is_failure)
    \/ AcquireRecord("record_duplicate", None)
    \/ CountRecord
    \/ TrackOrder
    \/ AppendFlag
    \/ CountFlag
    \/ \E thread \in Readers : ReadSnapshot(thread)

SpecLock == InitLock /\ [][NextLock]_vars

(* ------------------------------ messages ------------------------------- *)

\* env["ORDER_TOPIC"], env["INVENTORY_TOPIC"], and a topic that is neither
ORDER_TOPIC == "orders"
INVENTORY_TOPIC == "inventory"
OTHER_TOPIC == "other"

\* a dict key that is not there
Absent == "<absent>"

\* message values, as raw bytes: no value, zero bytes, bytes that are not
\* UTF-8, text that is not JSON, JSON that is not an object, a JSON object
\* with its order_id and status fields
RawValue(kind, order_id, status) ==
    [kind |-> kind, order_id |-> order_id, status |-> status]
NoValue == RawValue("none", Absent, Absent)
EmptyBytes == RawValue("empty", Absent, Absent)
BadUtf8 == RawValue("badutf8", Absent, Absent)
BadJson == RawValue("badjson", Absent, Absent)
JsonList == RawValue("nonmap", Absent, Absent)
JsonMap(order_id, status) == RawValue("map", order_id, status)

Message(topic, key, value) == [topic |-> topic, key |-> key, value |-> value]

\* the messages producers put on the bus
Msgs ==
    { Message(ORDER_TOPIC, "k1", JsonMap("o1", Absent)),
      Message(ORDER_TOPIC, None, NoValue),
      Message(ORDER_TOPIC, None, EmptyBytes),
      Message(ORDER_TOPIC, "k1", JsonList),
      Message(INVENTORY_TOPIC, None, JsonMap(Absent, "FAILURE")),
      Message(INVENTORY_TOPIC, "k1", BadUtf8),
      Message(OTHER_TOPIC, "k1", JsonMap("o1", Absent)) }

\* a decoder that takes undecodable bytes for an empty object
decode_payload_lenient(raw_value) ==
    IF raw_value.kind = "nonmap"
    THEN [ok |-> TRUE, dict |-> FALSE, order_id |-> Absent, status |-> Absent]
    ELSE [ok |-> TRUE, dict |-> TRUE,
          order_id |-> raw_value.order_id, status |-> raw_value.status]

\* _decode_payload: ok = FALSE stands for the ValueError; dict tells a JSON
\* object from any other JSON value
decode_payload(raw_value) ==
    CASE raw_value.kind = "none" ->
             [ok |-> TRUE, dict |-> TRUE, order_id |-> Absent, status |-> Absent]
      [] raw_value.kind = "map" ->
             [ok |-> TRUE, dict |-> TRUE,
              order_id |-> raw_value.order_id, status |-> raw_value.status]
      [] raw_value.kind = "nonmap" ->
             [ok |-> TRUE, dict |-> FALSE, order_id |-> Absent, status |-> Absent]
      [] OTHER ->
             [ok |-> FALSE, dict |-> FALSE, order_id |-> Absent, status |-> Absent]

\* JSON values other than text: null, and the number 7
Null == "<null>"
Seven == "<7>"

\* dict.get(key): None when the key is absent or holds null
Get(v) == IF v \in {Absent, Null} THEN None ELSE v

\* str(value): the text form of a JSON value; str(None) is the text 'None',
\* which is not None
Str(v) ==
    CASE v = Null -> "'None'"
      [] v = Seven -> "7"
      [] OTHER -> v

\* a resolver that prefers the transport key to the payload's order_id
resolve_order_id_key_first(message_key, payload) ==
    IF message_key # None /\ message_key # "" THEN message_key
    ELSE IF payload.order_id # Absent THEN Str(payload.order_id)
    ELSE None

\* _resolve_order_id
resolve_order_id(message_key, payload) ==
    IF payload.order_id # Absent THEN Str(payload.order_id)
    ELSE IF message_key # None
         THEN (IF message_key = "" THEN None ELSE message_key)
         ELSE None

\* _event_id: topic, identifier (or 'na') and the digest of the payload; the
\* digest is collision-free, so the payload's canonical form stands for it
event_id(topic, message_key, payload) ==
    LET fromPayload == Get(payload.order_id)
        identifier  == IF fromPayload = None /\ message_key # None
                       THEN message_key ELSE fromPayload
    IN <<topic,
         IF Falsy(identifier) THEN "na" ELSE Str(identifier),
         <<payload.order_id, payload.status>>>>

\* str.lower()
Lower(text) == IF text = "FAILURE" THEN "failure" ELSE text

\* str(payload.get("status", "")).lower() == "failure"
is_failure_status(payload) ==
    Lower(IF payload.status = Absent THEN "" ELSE payload.status) = "failure"

(* -------------------------- KafkaAnalyticsWorker ----------------------- *)

\* KafkaAnalyticsWorker._handle_message at the clock value t, the record call
\* reading the clock at t2 >= t.  outcome tells how the handler ended;
\* "AttributeError" is payload.get raised on a payload that is no dict
handle_message(topic, key, value, d, m, t, t2) ==
    LET payload == decode_payload(value) IN
    IF ~payload.ok
    THEN [outcome |-> "decode_error", deduper |-> d, metrics |-> m]
    ELSE IF ~payload.dict
    THEN [outcome |-> "AttributeError", deduper |-> d, metrics |-> m]
    ELSE
    LET reg == DuplicateFilter_register(d, event_id(topic, key, payload), t) IN
    IF reg.result
    THEN [outcome |-> "duplicate", deduper |-> reg.filter,
          metrics |-> MetricsAggregator_record_duplicate(m)]
    ELSE IF topic = ORDER_TOPIC
    THEN [outcome |-> "order", deduper |-> reg.filter,
          metrics |-> MetricsAggregator_record_order(
                          m, resolve_order_id(key, payload), t2)]
    ELSE IF topic = INVENTORY_TOPIC
    THEN [outcome |-> "inventory", deduper |-> reg.filter,
          metrics |-> MetricsAggregator_record_inventory(
                          m, is_failure_status(payload), t2)]
    ELSE [outcome |-> "ignored", deduper |-> reg.filter, metrics |-> m]

\* an auto-committing consumer
enable_auto_commit_on == TRUE

\* conf["enable.auto.commit"]
enable_auto_commit == FALSE

\* a loop that goes back to polling after a duplicate without committing
after_handle_skip_duplicate(outcome) ==
    IF outcome = "AttributeError" THEN "finally"
    ELSE IF outcome = "duplicate" THEN "loop"
    ELSE "commit"

\* run(): what follows self._handle_message(...): an exception leaves the loop
\* through the finally clause, any normal return is followed by the commit
after_handle(outcome) ==
    IF outcome = "AttributeError" THEN "finally" ELSE "commit"

InitWorker ==
    /\ now = 0
    /\ deduper = DuplicateFilter(WindowSec)
    /\ metrics = MetricsAggregator(WindowSec)
    /\ pc = "start" /\ stop = FALSE /\ consumer = None /\ msg = None
    /\ err = None /\ log = <<>> /\ pos = 0 /\ committed = 0
    /\ ret = None /\ lastFalse = None /\ trackedAt = None
    /\ inventoryLog = None
    /\ lock = None /\ call = None /\ completed = None
    /\ ProcessAbsent
    /\ LabsAbsent
    /\ last = [outcome |-> "none"]
    /\ recorded = {}
    /\ recordedAt = EmptyDict

historyVars == <<ret, lastFalse, trackedAt, inventoryLog>>

\* a producer appends a message to the log
Produce(m) ==
    /\ Len(log) < MaxLog
    /\ log' = Append(log, m)
    /\ UNCHANGED <<labVars, now, deduper, metrics, pc, stop, consumer, msg, err, pos,
                   committed, last, recorded, recordedAt, historyVars, lockVars,
                   processVars>>

\* the group rebalances: the consumer resumes from the committed offset
Rebalance ==
    /\ consumer = "open"
    /\ pos # committed
    /\ pos' = committed
    /\ UNCHANGED <<labVars, now, deduper, metrics, pc, stop, consumer, msg, err, log,
                   committed, last, recorded, recordedAt, historyVars, lockVars,
                   processVars>>

\* run(): self._consumer = self._build_consumer()
BuildConsumer ==
    /\ pc = "start"
    /\ consumer' = "open"
    /\ pc' = "loop"
    /\ UNCHANGED <<labVars, now, deduper, metrics, stop, msg, err, log, pos,
                   committed, last, recorded, recordedAt, historyVars, lockVars,
                   processVars>>

\* a loop that never tests the stop flag
LoopTest_ignoring_stop ==
    /\ pc = "loop"
    /\ pc' = "poll"
    /\ UNCHANGED <<labVars, now, deduper, metrics, stop, consumer, msg, err, log, pos,
                   committed, last, recorded, recordedAt, historyVars, lockVars,
                   processVars>>

\* run(): while not self._stop.is_set()
LoopTest ==
    /\ pc = "loop"
    /\ pc' = IF stop THEN "finally" ELSE "poll"
    /\ UNCHANGED <<labVars, now, deduper, metrics, stop, consumer, msg, err, log, pos,
                   committed, last, recorded, recordedAt, historyVars, lockVars,
                   processVars>>

\* poll(0.5) returns None
PollNone ==
    /\ pc = "poll"
    /\ pc' = "loop"
    /\ UNCHANGED <<labVars, now, deduper, metrics, stop, consumer, msg, err, log, pos,
                   committed, last, recorded, recordedAt, historyVars, lockVars,
                   processVars>>

\* a loop that raises on every error a poll result carries
poll_error_strict(code) == "raise"

\* run(): what is done about the error code of a poll result: end of
\* partition is skipped, unknown topic is retried after a sleep, any other
\* error is raised as a KafkaException
poll_error(code) ==
    CASE code = "_PARTITION_EOF" -> "continue"
      [] code = "UNKNOWN_TOPIC_OR_PART" -> "sleep"
      [] OTHER -> "raise"

\* poll(0.5) returns a message that carries an error
PollError(code) ==
    LET todo == poll_error(code) IN
    /\ pc = "poll"
    /\ todo = "sleep" => now < MaxTime
    /\ pc' = CASE todo = "continue" -> "loop"
               [] todo = "sleep" -> "sleep"
               [] OTHER -> "finally"
    /\ err' = IF todo = "raise" THEN "KafkaException" ELSE err
    /\ UNCHANGED <<labVars, now, deduper, metrics, stop, consumer, msg, log, pos,
                   committed, last, recorded, recordedAt, historyVars, lockVars,
                   processVars>>

\* run(): time.sleep(1.0); continue
Sleep ==
    /\ pc = "sleep"
    /\ now' = now + 1
    /\ pc' = "loop"
    /\ UNCHANGED <<labVars, deduper, metrics, stop, consumer, msg, err, log, pos,
                   committed, last, recorded, recordedAt, historyVars, lockVars,
                   processVars>>

\* poll(0.5) returns the next message of the log
PollMessage ==
    /\ pc = "poll"
    /\ pos < Len(log)
    /\ pc' = "handle"
    /\ msg' = [offset |-> pos + 1, m |-> log[pos + 1]]
    /\ pos' = pos + 1
    /\ committed' = IF enable_auto_commit THEN pos + 1 ELSE committed
    /\ UNCHANGED <<labVars, now, deduper, metrics, stop, consumer, err, log,
                   last, recorded, recordedAt, historyVars, lockVars,
                   processVars>>

\* self._handle_message(msg.topic(), msg.key(), msg.value())
HandleMessage ==
    /\ pc = "handle"
    /\ \E skew \in 0..MaxSkew :
        LET m == msg.m
            h == handle_message(m.topic, m.key, m.value, deduper, metrics,
                                now, now + skew)
            business == h.outcome \in {"order", "inventory"}
            id == event_id(m.topic, m.key, decode_payload(m.value))
        IN /\ now + skew <= MaxTime
           /\ now' = IF business THEN now + skew ELSE now
           /\ (~business => skew = 0)
           /\ deduper' = h.deduper
           /\ metrics' = h.metrics
           /\ pc' = after_handle(h.outcome)
           /\ err' = IF h.outcome = "AttributeError" THEN "AttributeError" ELSE err
           /\ last' = [outcome |-> h.outcome, offset |-> msg.offset,
                       committed |-> committed,
                       duplicates |-> metrics.stats.duplicates,
                       again |-> msg.offset \in recorded]
           /\ recorded' = IF h.outcome \in {"order", "inventory", "duplicate"}
                          THEN recorded \cup {msg.offset} ELSE recorded
           /\ recordedAt' = IF business THEN Put(recordedAt, id, now)
                            ELSE recordedAt
    /\ UNCHANGED <<labVars, stop, consumer, msg, log, pos, committed, historyVars, lockVars,
                   processVars>>

\* a commit of the offset before the message
Commit_behind ==
    /\ pc = "commit"
    /\ committed' = msg.offset - 1
    /\ pc' = "loop"
    /\ UNCHANGED <<labVars, now, deduper, metrics, stop, consumer, msg, err, log, pos,
                   last, recorded, recordedAt, historyVars, lockVars,
                   processVars>>

\* self._consumer.commit(message=msg, asynchronous=False) succeeds
Commit ==
    /\ pc = "commit"
    /\ committed' = msg.offset
    /\ pc' = "loop"
    /\ UNCHANGED <<labVars, now, deduper, metrics, stop, consumer, msg, err, log, pos,
                   last, recorded, recordedAt, historyVars, lockVars,
                   processVars>>

\* self._consumer.commit(message=msg, asynchronous=False) raises
CommitFails ==
    /\ pc = "commit"
    /\ err' = "KafkaException"
    /\ pc' = "finally"
    /\ UNCHANGED <<labVars, now, deduper, metrics, stop, consumer, msg, log, pos,
                   committed, last, recorded, recordedAt, historyVars, lockVars,
                   processVars>>

\* run(): finally: self._consumer.close()
Close ==
    /\ pc = "finally"
    /\ consumer' = "closed"
    /\ pc' = "done"
    /\ UNCHANGED <<labVars, now, deduper, metrics, stop, msg, err, log, pos,
                   committed, last, recorded, recordedAt, historyVars, lockVars,
                   processVars>>

\* KafkaAnalyticsWorker.stop(): sets the flag the loop tests; the wakeup of a
\* blocked poll is the poll returning (PollNone)
Stop ==
    /\ ~stop
    /\ stop' = TRUE
    /\ UNCHANGED <<labVars, now, deduper, metrics, pc, consumer, msg, err, log, pos,
                   committed, last, recorded, recordedAt, historyVars, lockVars,
                   processVars>>

Next ==
    \/ Tick
    \/ \E m \in Msgs : Produce(m)
    \/ Rebalance
    \/ BuildConsumer
    \/ LoopTest
    \/ PollNone
    \/ \E code \in {"_PARTITION_EOF", "UNKNOWN_TOPIC_OR_PART", "OTHER"} :
           PollError(code)
    \/ Sleep
    \/ PollMessage
    \/ HandleMessage
    \/ Commit
    \/ CommitFails
    \/ Close
    \/ Stop

Spec == InitWorker /\ [][Next]_vars

(* ------------- the worker, message handling lock by lock --------------- *)

\* the value of a variable that holds no message yet
NoMessage == [offset |-> 0, m |-> Message(None, None, NoValue)]

\* the messages a poll may return: on the order topic every combination of
\* an order_id field that is missing, null, empty, a text or a number with a
\* key that is missing, empty or a text; an inventory event; a payload that
\* is no JSON object; a payload that does not decode
HandlerMsgs ==
    { Message(ORDER_TOPIC, key, JsonMap(order_id, Absent)) :
          key \in {None, "", "k1"},
          order_id \in {Absent, Null, "", "o1", Seven} }
    \cup { Message(INVENTORY_TOPIC, None, JsonMap(Absent, "FAILURE")),
           Message(ORDER_TOPIC, "k1", JsonList),
           Message(ORDER_TOPIC, None, EmptyBytes) }

\* a lock that is never given back
Lock_release_forgotten(owner) == owner

\* threading.Lock / threading.RLock: leaving `with self._lock`
Lock_release(owner) == None

\* threading.Lock: `with self._lock` is entered when the lock is free
Lock_acquire(owner, thread) == owner = None

InitHandler ==
    /\ now = 0
    /\ deduper = DuplicateFilter(WindowSec)
    /\ metrics = MetricsAggregator(WindowSec)
    /\ pc = "start" /\ stop = FALSE /\ consumer = None /\ msg = NoMessage
    /\ err = None /\ log = <<>> /\ pos = 0 /\ committed = 0
    /\ ret = None /\ lastFalse = None /\ trackedAt = None
    /\ inventoryLog = None
    /\ lock = None /\ call = NoCall /\ completed = None
    /\ ProcessAbsent
    /\ LabsAbsent
    /\ last = [outcome |-> "none"]
    /\ recorded = {}
    /\ recordedAt = EmptyDict

\* poll(0.5) returns a message
PollAny(m) ==
    /\ pc = "poll"
    /\ pos < MaxLog
    /\ pc' = "handle"
    /\ msg' = [offset |-> pos + 1, m |-> m]
    /\ pos' = pos + 1
    /\ call' = NoCall
    /\ UNCHANGED <<labVars, now, deduper, metrics, stop, consumer, err, log,
                   committed, last, recorded, recordedAt, historyVars, lock,
                   completed, processVars>>

\* _handle_message: payload = _decode_payload(value), the ValueError caught;
\* event_id = _event_id(topic, key, payload), whose payload.get raises
\* AttributeError on a payload that is no dict; deduper.register reads the
\* clock
Decode ==
    LET m == msg.m
        payload == decode_payload(m.value)
    IN /\ pc = "handle"
       /\ pc' = IF ~payload.ok THEN "commit"
                ELSE IF ~payload.dict THEN "finally"
                ELSE "register"
       /\ err' = IF payload.ok /\ ~payload.dict THEN "AttributeError" ELSE err
       /\ call' = IF payload.ok /\ payload.dict
                  THEN [op |-> "register",
                        arg |-> event_id(m.topic, m.key, payload),
                        step |-> "idle", t |-> now]
                  ELSE NoCall
       /\ last' = IF ~payload.ok
                  THEN [outcome |-> "decode_error", offset |-> msg.offset,
                        locked |-> {}]
                  ELSE IF ~payload.dict
                  THEN [outcome |-> "AttributeError", offset |-> msg.offset,
                        locked |-> {}]
                  ELSE last
       /\ UNCHANGED <<labVars, now, deduper, metrics, stop, consumer, msg, log,
                      pos, committed, recorded, recordedAt, historyVars, lock,
                      completed, processVars>>

\* DuplicateFilter.register: with self._lock
EnterRegister ==
    /\ pc = "register"
    /\ Lock_acquire(deduper.lock, "worker")
    /\ pc' = "registering"
    /\ deduper' = [deduper EXCEPT !.lock = "worker"]
    /\ UNCHANGED <<labVars, now, metrics, stop, consumer, msg, err, log, pos,
                   committed, last, recorded, recordedAt, historyVars,
                   lockVars, processVars>>

\* DuplicateFilter.register: the body, and the lock is left on return.
\* _handle_message then picks the record_* call, or returns for a topic that
\* is neither the order nor the inventory topic
LeaveRegister ==
    LET m == msg.m
        payload == decode_payload(m.value)
        r == DuplicateFilter_register(deduper, call.arg, call.t)
    IN /\ pc = "registering"
       /\ deduper' = [r.filter EXCEPT !.lock = Lock_release(@)]
       /\ IF r.result
          THEN /\ pc' = "record"
               /\ call' = [op |-> "record_duplicate", arg |-> None,
                           step |-> "idle", t |-> NoTime]
               /\ UNCHANGED last
          ELSE IF m.topic = ORDER_TOPIC
          THEN /\ pc' = "record"
               /\ call' = [op |-> "record_order",
                           arg |-> resolve_order_id(m.key, payload),
                           step |-> "idle", t |-> NoTime]
               /\ UNCHANGED last
          ELSE IF m.topic = INVENTORY_TOPIC
          THEN /\ pc' = "record"
               /\ call' = [op |-> "record_inventory",
                           arg |-> is_failure_status(payload),
                           step |-> "idle", t |-> NoTime]
               /\ UNCHANGED last
          ELSE /\ pc' = "commit"
               /\ call' = NoCall
               /\ last' = [outcome |-> "ignored", offset |-> msg.offset,
                           locked |-> {"deduper"}]
       /\ UNCHANGED <<labVars, now, metrics, stop, consumer, msg, err, log, pos,
                      committed, recorded, recordedAt, historyVars, lock,
                      completed, processVars>>

\* MetricsAggregator.record_*: with self._lock
EnterRecord ==
    /\ pc = "record"
    /\ RLock_acquire(lock, "worker")
    /\ pc' = "recording"
    /\ lock' = "worker"
    /\ call' = [call EXCEPT !.step = "locked"]
    /\ UNCHANGED <<labVars, now, deduper, metrics, stop, consumer, msg, err,
                   log, pos, committed, last, recorded, recordedAt,
                   historyVars, completed, processVars>>

\* MetricsAggregator.record_*: the body, and the lock is left on return;
\* _handle_message returns
LeaveRecord ==
    /\ pc = "recording"
    /\ pc' = "commit"
    /\ metrics' =
           CASE call.op = "record_order" ->
                    MetricsAggregator_record_order(metrics, call.arg, now)
             [] call.op = "record_inventory" ->
                    MetricsAggregator_record_inventory(metrics, call.arg, now)
             [] call.op = "record_duplicate" ->
                    MetricsAggregator_record_duplicate(metrics)
    /\ lock' = Lock_release(lock)
    /\ call' = [call EXCEPT !.step = "idle", !.t = now]
    /\ last' = [outcome |-> call.op, offset |-> msg.offset,
                locked |-> {"deduper", "metrics"}, before |-> metrics]
    /\ UNCHANGED <<labVars, now, deduper, stop, consumer, msg, err, log, pos,
                   committed, recorded, recordedAt, historyVars, completed,
                   processVars>>

\* the worker thread, _handle_message taken one lock at a time
NextHandler ==
    \/ Tick
    \/ BuildConsumer
    \/ LoopTest
    \/ PollNone
    \/ \E m \in HandlerMsgs : PollAny(m)
    \/ Decode
    \/ EnterRegister
    \/ LeaveRegister
    \/ EnterRecord
    \/ LeaveRecord
    \/ Commit
    \/ CommitFails
    \/ Close
    \/ Stop

SpecHandler == InitHandler /\ [][NextHandler]_vars

(* ------------------------------ the process ---------------------------- *)

\* _load_env: the settings that must be there
required == {"BOOTSTRAP_SERVERS", "ORDER_TOPIC", "INVENTORY_TOPIC", "GROUP_ID"}

\* the environments the process is started in: each required setting unset,
\* empty or set, REPORT_INTERVAL_SEC unset, "0" or "5"
Environs ==
    {e \in [required \cup {"REPORT_INTERVAL_SEC"} -> {None, "", "set", "0", "5"}] :
        /\ \A k \in required : e[k] \in {None, "", "set"}
        /\ e["REPORT_INTERVAL_SEC"] \in {None, "0", "5"}}

\* float(os.getenv("REPORT_INTERVAL_SEC", "0"))
report_interval_sec(e) ==
    IF e["REPORT_INTERVAL_SEC"] = "5" THEN 5 ELSE 0

\* a loader that accepts any environment
load_env_unchecked(e) ==
    [ok |-> TRUE, REPORT_INTERVAL_SEC |-> report_interval_sec(e)]

\* _load_env: ok = FALSE stands for the RuntimeError
load_env(e) ==
    LET missing == {k \in required : Falsy(e[k])} IN
    [ok |-> missing = {}, REPORT_INTERVAL_SEC |-> report_interval_sec(e)]

\* the messages on the bus when the process starts
BusAtStart ==
    <<Message(ORDER_TOPIC, "k1", JsonMap("o1", Absent)),
      Message(ORDER_TOPIC, "k1", JsonList)>>

\* the process as it is started.  The aggregator and the filter hold from the
\* start the values main() constructs them with: no thread reads them before
InitProcess ==
    /\ now = 0
    /\ deduper = DuplicateFilter(WindowSec)
    /\ metrics = MetricsAggregator(WindowSec)
    /\ pc = None /\ stop = FALSE /\ consumer = None /\ msg = NoMessage
    /\ err = None /\ log = BusAtStart /\ pos = 0 /\ committed = 0
    /\ ret = [op |-> "none"] /\ lastFalse = None /\ trackedAt = None
    /\ inventoryLog = None
    /\ lock = None /\ call = None /\ completed = None
    /\ last = [outcome |-> "none"]
    /\ recorded = {}
    /\ recordedAt = EmptyDict
    /\ \E e \in Environs :
           process = [environ |-> e, main |-> "load_env",
                      STOP_EVENT |-> FALSE, started |-> {}, joined |-> {},
                      reporter |-> None, reporterStop |-> FALSE]
    /\ exit = None
    /\ LabsAbsent

\* os.environ: the settings the process is started with
environ == process.environ
\* where the main thread is in main()
main == process.main
\* the module's STOP_EVENT
STOP_EVENT == process.STOP_EVENT
\* the threads main() has started, the threads it has joined
started == process.started
joined == process.joined
\* where the PeriodicReporter thread is in run(), None if there is no
\* reporter; PeriodicReporter._stop
reporter == process.reporter
reporterStop == process.reporterStop

\* main(): env = _load_env(); metrics = MetricsAggregator(env["WINDOW_SEC"]).
\* The RuntimeError of _load_env leaves main() and is caught under __main__,
\* which prints it and calls sys.exit(1)
MainLoadEnv ==
    /\ main = "load_env"
    /\ IF load_env(environ).ok
       THEN /\ process' = [process EXCEPT !.main = "start_worker"]
            /\ metrics' = MetricsAggregator(WindowSec)
            /\ UNCHANGED exit
       ELSE /\ process' = [process EXCEPT !.main = "exited"]
            /\ exit' = 1
            /\ UNCHANGED metrics
    /\ UNCHANGED <<labVars, now, deduper, workerVars, historyVars, lockVars>>

\* main(): worker = KafkaAnalyticsWorker(env, metrics); worker.start()
MainStartWorker ==
    /\ main = "start_worker"
    /\ process' = [process EXCEPT !.main = "start_http",
                                  !.started = @ \cup {"worker"}]
    /\ deduper' = DuplicateFilter(WindowSec)
    /\ pc' = "start"
    /\ UNCHANGED <<labVars, now, metrics, stop, consumer, msg, err, log, pos, committed,
                   last, recorded, recordedAt, historyVars, lockVars, exit>>

\* main(): http_server = HttpMetricsServer(...); http_server.start()
MainStartHttp ==
    /\ main = "start_http"
    /\ process' = [process EXCEPT !.main = "start_reporter",
                                  !.started = @ \cup {"http"}]
    /\ UNCHANGED <<labVars, now, deduper, metrics, workerVars, historyVars, lockVars,
                   exit>>

\* main(): if env["REPORT_INTERVAL_SEC"] > 0: reporter = ...; reporter.start()
MainStartReporter ==
    /\ main = "start_reporter"
    /\ process' = IF load_env(environ).REPORT_INTERVAL_SEC > 0
                  THEN [process EXCEPT !.main = "signals",
                                       !.reporter = "wait",
                                       !.started = @ \cup {"reporter"}]
                  ELSE [process EXCEPT !.main = "signals"]
    /\ UNCHANGED <<labVars, now, deduper, metrics, workerVars, historyVars, lockVars,
                   exit>>

\* main(): signal.signal(SIGINT, ...); signal.signal(SIGTERM, ...); print
MainInstallSignals ==
    /\ main = "signals"
    /\ process' = [process EXCEPT !.main = "wait"]
    /\ UNCHANGED <<labVars, now, deduper, metrics, workerVars, historyVars, lockVars,
                   exit>>

\* _handle_signal: SIGINT or SIGTERM arrives once the handlers are installed
Signal ==
    /\ main \in {"wait", "stop_worker", "join_worker", "stop_reporter",
                 "join_reporter", "return"}
    /\ ~STOP_EVENT
    /\ process' = [process EXCEPT !.STOP_EVENT = TRUE]
    /\ UNCHANGED <<labVars, now, deduper, metrics, workerVars, historyVars, lockVars,
                   exit>>

\* main(): while not STOP_EVENT.is_set(): time.sleep(0.5) -- the loop is left
\* when the event is set, and for no other reason
MainWait ==
    /\ main = "wait"
    /\ STOP_EVENT
    /\ process' = [process EXCEPT !.main = "stop_worker"]
    /\ UNCHANGED <<labVars, now, deduper, metrics, workerVars, historyVars, lockVars,
                   exit>>

\* main(): finally: worker.stop()
MainStopWorker ==
    /\ main = "stop_worker"
    /\ process' = [process EXCEPT !.main = "join_worker"]
    /\ stop' = TRUE
    /\ UNCHANGED <<labVars, now, deduper, metrics, pc, consumer, msg, err, log, pos,
                   committed, last, recorded, recordedAt, historyVars,
                   lockVars, exit>>

\* main(): worker.join() returns when run() has ended
MainJoinWorker ==
    /\ main = "join_worker"
    /\ pc = "done"
    /\ process' = [process EXCEPT !.main = "stop_reporter",
                                  !.joined = @ \cup {"worker"}]
    /\ UNCHANGED <<labVars, now, deduper, metrics, workerVars, historyVars, lockVars,
                   exit>>

\* main(): worker.join() raises.  KafkaAnalyticsWorker.__init__ stores an
\* Event in self._stop, the name of a method of threading.Thread that join()
\* calls once the thread has ended on interpreters up to CPython 3.12:
\* there join() raises TypeError ('Event' object is not callable), which
\* leaves the finally clause and main() and is caught under __main__
MainJoinWorkerRaises ==
    /\ main = "join_worker"
    /\ pc = "done"
    /\ process' = [process EXCEPT !.main = "exited"]
    /\ exit' = 1
    /\ UNCHANGED <<labVars, now, deduper, metrics, workerVars, historyVars, lockVars>>

\* main(): if reporter: reporter.stop()
MainStopReporter ==
    /\ main = "stop_reporter"
    /\ process' = IF reporter # None
                  THEN [process EXCEPT !.main = "join_reporter",
                                       !.reporterStop = TRUE]
                  ELSE [process EXCEPT !.main = "return"]
    /\ UNCHANGED <<labVars, now, deduper, metrics, workerVars, historyVars, lockVars,
                   exit>>

\* main(): reporter.join() returns when run() has ended
MainJoinReporter ==
    /\ main = "join_reporter"
    /\ reporter = "done"
    /\ process' = [process EXCEPT !.main = "return",
                                  !.joined = @ \cup {"reporter"}]
    /\ UNCHANGED <<labVars, now, deduper, metrics, workerVars, historyVars, lockVars,
                   exit>>

\* main(): reporter.join() raises, as worker.join() does: PeriodicReporter
\* stores an Event in self._stop too
MainJoinReporterRaises ==
    /\ main = "join_reporter"
    /\ reporter = "done"
    /\ process' = [process EXCEPT !.main = "exited"]
    /\ exit' = 1
    /\ UNCHANGED <<labVars, now, deduper, metrics, workerVars, historyVars, lockVars>>

\* main(): print("Analytics consumer stopped.") and return; the interpreter
\* exits with status 0, ending the daemon threads that still run
MainReturn ==
    /\ main = "return"
    /\ process' = [process EXCEPT !.main = "exited"]
    /\ exit' = 0
    /\ UNCHANGED <<labVars, now, deduper, metrics, workerVars, historyVars, lockVars>>

\* PeriodicReporter.run: self._stop.wait(self.interval) times out; the
\* snapshot is taken and printed
ReporterReport ==
    LET r == MetricsAggregator_snapshot(metrics, now, now, now, now) IN
    /\ reporter = "wait"
    /\ ~reporterStop
    /\ main # "exited"
    /\ metrics' = r.metrics
    /\ ret' = [op |-> "snapshot", at |-> now, by |-> "reporter",
               snapshot |-> r.snapshot]
    /\ UNCHANGED <<labVars, now, deduper, lastFalse, trackedAt, inventoryLog,
                   workerVars, lockVars, processVars>>

\* PeriodicReporter.run: self._stop.wait(self.interval) returns true
ReporterExit ==
    /\ reporter = "wait"
    /\ reporterStop
    /\ process' = [process EXCEPT !.reporter = "done"]
    /\ UNCHANGED <<labVars, now, deduper, metrics, workerVars, historyVars, lockVars,
                   exit>>

\* HttpMetricsServer: GET /metrics answers with jsonify(metrics.snapshot())
MetricsEndpoint ==
    LET r == MetricsAggregator_snapshot(metrics, now, now, now, now) IN
    /\ "http" \in started
    /\ main # "exited"
    /\ metrics' = r.metrics
    /\ ret' = [op |-> "snapshot", at |-> now, by |-> "http",
               snapshot |-> r.snapshot]
    /\ UNCHANGED <<labVars, now, deduper, lastFalse, trackedAt, inventoryLog,
                   workerVars, lockVars, processVars>>

\* the steps of the main thread
MainStep ==
    \/ MainLoadEnv
    \/ MainStartWorker
    \/ MainStartHttp
    \/ MainStartReporter
    \/ MainInstallSignals
    \/ MainWait
    \/ MainStopWorker
    \/ MainJoinWorker
    \/ MainJoinWorkerRaises
    \/ MainStopReporter
    \/ MainJoinReporter
    \/ MainJoinReporterRaises
    \/ MainReturn

\* the steps of the worker thread
WorkerStep ==
    \/ BuildConsumer
    \/ LoopTest
    \/ PollNone
    \/ \E code \in {"_PARTITION_EOF", "UNKNOWN_TOPIC_OR_PART", "OTHER"} :
           PollError(code)
    \/ Sleep
    \/ PollMessage
    \/ HandleMessage
    \/ Commit
    \/ CommitFails
    \/ Close

\* the steps of the reporter thread
ReporterStep ==
    \/ ReporterReport
    \/ ReporterExit

NextProcess ==
    \/ MainStep
    \/ WorkerStep
    \/ ReporterStep
    \/ MetricsEndpoint
    \/ Signal

SpecProcess == InitProcess /\ [][NextProcess]_vars

\* every thread that can take a step eventually takes one (each step of the
\* main thread and of the worker thread moves that thread on; the reporter's
\* wait returns once its stop flag is set)
SpecProcessFair ==
    /\ SpecProcess
    /\ WF_process(MainStep)
    /\ WF_pc(WorkerStep)
    /\ WF_process(ReporterStep)

(* ------------------- the worker on a given log ------------------------ *)

\* the messages of the logs the worker is started on: an order, a failed
\* inventory event, and an order whose payload is no JSON object
DeliveryMsgs ==
    { Message(ORDER_TOPIC, "k1", JsonMap("o1", Absent)),
      Message(INVENTORY_TOPIC, None, JsonMap(Absent, "FAILURE")),
      Message(ORDER_TOPIC, "k1", JsonList) }

\* the logs of at most MaxLog of these messages
DeliveryLogs ==
    UNION {[1..n -> DeliveryMsgs] : n \in 0..MaxLog}

\* the worker thread just started on one of these logs, the clock one tick
\* before the end of the span it runs over
InitDelivery ==
    /\ now = MaxTime - 1
    /\ deduper = DuplicateFilter(WindowSec)
    /\ metrics = MetricsAggregator(WindowSec)
    /\ pc = "start" /\ stop = FALSE /\ consumer = None /\ msg = NoMessage
    /\ err = None /\ pos = 0 /\ committed = 0
    /\ log \in DeliveryLogs
    /\ ret = [op |-> "none"] /\ lastFalse = None /\ trackedAt = None
    /\ inventoryLog = None
    /\ lock = None /\ call = None /\ completed = None
    /\ last = [outcome |-> "none", offset |-> 0, committed |-> 0,
               duplicates |-> 0, again |-> FALSE]
    /\ recorded = {}
    /\ recordedAt = EmptyDict
    /\ ProcessAbsent
    /\ LabsAbsent

NextDelivery ==
    \/ WorkerStep
    \/ Rebalance
    \/ Stop

SpecDelivery == InitDelivery /\ [][NextDelivery]_vars

\* the worker thread is scheduled: when it can take a step it eventually
\* takes one
SpecDeliveryFair == SpecDelivery /\ WF_pc(WorkerStep)

(* --------------- the worker and stop(), step by step ------------------- *)

\* the worker thread just started, the bus holding its messages, and the
\* thread that will call stop() not yet in it.  stopper tells where that
\* thread is in stop(); wakeup is the state of the client when
\* self._consumer.wakeup() was invoked on it, None if it was not invoked
InitStop ==
    /\ now = 0
    /\ deduper = DuplicateFilter(WindowSec)
    /\ metrics = MetricsAggregator(WindowSec)
    /\ pc = "start" /\ stop = FALSE /\ consumer = None /\ msg = NoMessage
    /\ err = None /\ log = BusAtStart /\ pos = 0 /\ committed = 0
    /\ ret = [op |-> "none"] /\ lastFalse = None /\ trackedAt = None
    /\ inventoryLog = None
    /\ lock = None /\ call = None /\ completed = None
    /\ last = [outcome |-> "none"]
    /\ recorded = {}
    /\ recordedAt = EmptyDict
    /\ process = [stopper |-> "idle", wakeup |-> None]
    /\ exit = None
    /\ LabsAbsent

\* stop(): self._stop.set()
StopSet ==
    /\ process.stopper = "idle"
    /\ stop' = TRUE
    /\ process' = [process EXCEPT !.stopper = "set"]
    /\ UNCHANGED <<labVars, now, deduper, metrics, pc, consumer, msg, err,
                   log, pos, committed, last, recorded, recordedAt,
                   historyVars, lockVars, exit>>

\* stop(): if self._consumer: self._consumer.wakeup() -- self._consumer is
\* None until run() has built the client and holds the client from then on,
\* also when the client is closed
StopWakeup ==
    /\ process.stopper = "set"
    /\ process' = [process EXCEPT
           !.stopper = "done",
           !.wakeup = IF consumer # None THEN consumer ELSE @]
    /\ UNCHANGED <<labVars, now, deduper, metrics, workerVars, historyVars,
                   lockVars, exit>>

NextStop ==
    \/ WorkerStep
    \/ StopSet
    \/ StopWakeup

SpecStop == InitStop /\ [][NextStop]_vars

(* ---------------- the PeriodicReporter, step by step ------------------- *)

\* the values of interval_sec the reporter is constructed with: 0 stands
\* for any value below 1
ReportIntervals == 0..MaxWindow

\* a fixed sleep: time.sleep(interval), the flag looked at afterwards
sleep_returns(flag, since, interval, t) == t >= since + interval

\* Event.wait(timeout) of a wait begun at `since` can return at t: the flag
\* is set or the timeout has elapsed
wait_returns(flag, since, interval, t) == flag \/ t >= since + interval

\* PeriodicReporter(metrics, interval_sec) started on an idle aggregator:
\* run() is in its first wait.  History: how many waits timed out, how many
\* snapshots were taken and lines printed, and what these were when stop()
\* was called
InitReporter ==
    /\ now = 0
    /\ deduper = None
    /\ metrics = MetricsAggregator(WindowSec)
    /\ ret = [op |-> "none"]
    /\ lastFalse = None /\ trackedAt = None /\ inventoryLog = None
    /\ pc = None /\ stop = FALSE /\ consumer = None /\ msg = None
    /\ err = None /\ log = <<>> /\ pos = 0 /\ committed = 0
    /\ last = None /\ recorded = {} /\ recordedAt = None
    /\ lock = None /\ call = None /\ completed = None
    /\ exit = None
    /\ LabsAbsent
    /\ \E interval_sec \in ReportIntervals :
          process = [interval |-> Max(interval_sec, 1),
                     reporter |-> "wait", reporterStop |-> FALSE,
                     since |-> 0, timeouts |-> 0, snapshots |-> 0,
                     lines |-> 0, stopAt |-> NoTime, atStop |-> "none",
                     snapshotsAtStop |-> 0, linesAtStop |-> 0,
                     doneAt |-> NoTime]

\* time passes, unless the reporter's wait can return: a wait returns as
\* soon as its flag is set or its timeout has elapsed
ReporterTick ==
    /\ ~(/\ reporter = "wait"
         /\ wait_returns(reporterStop, process.since, process.interval, now))
    /\ Tick

\* PeriodicReporter.stop(), called by another thread
ReporterStop ==
    /\ ~reporterStop
    /\ process' = [process EXCEPT !.reporterStop = TRUE,
                                  !.stopAt = now,
                                  !.atStop = reporter,
                                  !.snapshotsAtStop = process.snapshots,
                                  !.linesAtStop = process.lines]
    /\ UNCHANGED <<labVars, now, deduper, metrics, workerVars, historyVars,
                   lockVars, exit>>

\* run(): self._stop.wait(self.interval) returns: true when the flag is
\* set, which ends the loop and the thread, false when it timed out
ReporterWait ==
    /\ reporter = "wait"
    /\ wait_returns(reporterStop, process.since, process.interval, now)
    /\ process' = IF reporterStop
                  THEN [process EXCEPT !.reporter = "done", !.doneAt = now]
                  ELSE [process EXCEPT !.reporter = "snapshot",
                                       !.timeouts = @ + 1]
    /\ UNCHANGED <<labVars, now, deduper, metrics, workerVars, historyVars,
                   lockVars, exit>>

\* run(): snapshot = self.metrics.snapshot()
ReporterSnapshot ==
    LET r == MetricsAggregator_snapshot(metrics, now, now, now, now) IN
    /\ reporter = "snapshot"
    /\ metrics' = r.metrics
    /\ ret' = [op |-> "snapshot", at |-> now, by |-> "reporter",
               snapshot |-> r.snapshot]
    /\ process' = [process EXCEPT !.reporter = "print",
                                  !.snapshots = @ + 1]
    /\ UNCHANGED <<labVars, now, deduper, lastFalse, trackedAt, inventoryLog,
                   workerVars, lockVars, exit>>

\* run(): print("[Analytics] ..."), and the next wait begins
ReporterPrint ==
    /\ reporter = "print"
    /\ process' = [process EXCEPT !.reporter = "wait",
                                  !.lines = @ + 1,
                                  !.since = now]
    /\ UNCHANGED <<labVars, now, deduper, metrics, workerVars, historyVars,
                   lockVars, exit>>

NextReporter ==
    \/ ReporterTick
    \/ ReporterStop
    \/ ReporterWait
    \/ ReporterSnapshot
    \/ ReporterPrint

SpecReporter == InitReporter /\ [][NextReporter]_vars

(* ------------- src/async-rabbitmq: the inventory service --------------- *)

\* the message bodies published to the `orders` exchange with the routing key
\* order.placed: text that is not JSON, JSON that is no object, and JSON
\* objects with their order_id, item and qty fields
Body(kind, order_id, item, qty) ==
    [kind |-> kind, order_id |-> order_id, item |-> item, qty |-> qty]
Placed(order_id, item, qty) == Body("map", order_id, item, qty)
BrokenJson == Body("badjson", Absent, Absent, Absent)
JsonArray == Body("nonmap", Absent, Absent, Absent)
NoBody == Body("none", Absent, Absent, Absent)

\* the items init_db seeds the inventory table with (one stands for the five)
Items == {"burger"}

\* the bodies published: two orders that can be reserved (one without qty),
\* an order for an item that is not stocked, an order for more than the
\* stock, an order whose qty is no number, bodies without order_id or
\* without item, one of them with a qty that is no number, and the two
\* bodies that are no JSON object
Bodies ==
    { Placed("A", "burger", "1"),
      Placed("B", "burger", Absent),
      Placed("C", "ramen", "1"),
      Placed("D", "burger", "many"),
      Placed(Absent, "burger", "1"),
      Placed("A", Absent, "1"),
      Placed(Absent, "burger", "two"),
      BrokenJson,
      JsonArray }

\* the order ids the bodies carry
PlacedIds == {b.order_id : b \in Bodies} \ {Absent}

\* int(payload.get('qty', 1)): ok = FALSE stands for the ValueError or
\* TypeError; "many" is a number above the stock
int(qty) ==
    CASE qty = Absent -> [ok |-> TRUE, value |-> 1]
      [] qty = "1" -> [ok |-> TRUE, value |-> 1]
      [] qty = "many" -> [ok |-> TRUE, value |-> Stock + 1]
      [] OTHER -> [ok |-> FALSE, value |-> 0]

\* a lookup that never finds the order
select_processed_never(processed, order_id) == FALSE

\* SELECT order_id FROM processed_orders WHERE order_id = ?; cur.fetchone()
select_processed(processed, order_id) == order_id \in DOMAIN processed

\* INSERT INTO processed_orders: order_id is the PRIMARY KEY, so inserting an
\* order_id the table holds raises sqlite3.IntegrityError (ok = FALSE)
insert_processed(processed, order_id, reservation_id, status) ==
    IF order_id \in DOMAIN processed
    THEN [ok |-> FALSE, table |-> processed]
    ELSE [ok |-> TRUE,
          table |-> Put(processed, order_id,
                        [reservation_id |-> reservation_id, status |-> status])]

\* what the callback does with a delivery, given the database, whether the
\* injected failure strikes and whether publishing the result succeeds.
\* outcome: "reject" is basic_reject(requeue=False), "nack" is
\* basic_nack(requeue=True), "ack" is basic_ack, "raise" is an exception
\* leaving the callback with the delivery unacknowledged.  A transaction
\* that is not committed is rolled back when the connection is dropped.
\* event is the routing key of the event published to the inventory
\* exchange, None if none was published
callback(body, inventory, processed, inject, publish_ok) ==
    LET same(outcome) == [outcome |-> outcome, inventory |-> inventory,
                          processed |-> processed, reserved |-> FALSE,
                          event |-> None]
        failed(status) ==
            LET ins == insert_processed(processed, body.order_id, None, status)
            IN IF ~ins.ok THEN same("raise")
               ELSE [outcome |-> IF publish_ok THEN "ack" ELSE "raise",
                     inventory |-> inventory, processed |-> ins.table,
                     reserved |-> FALSE,
                     event |-> IF publish_ok THEN "inventory.failed"
                               ELSE None]
        qty == int(body.qty)
    IN IF body.kind = "badjson" THEN same("reject")
       ELSE IF body.kind = "nonmap" THEN same("raise")
       ELSE IF ~qty.ok THEN same("raise")
       ELSE IF Falsy(Get(body.order_id)) \/ Falsy(Get(body.item))
       THEN same("reject")
       ELSE IF inject THEN same("nack")
       ELSE IF select_processed(processed, body.order_id) THEN same("ack")
       ELSE IF body.item \notin DOMAIN inventory
       THEN failed("failed_item_not_found")
       ELSE IF inventory[body.item] < qty.value
       THEN failed("failed_insufficient")
       ELSE LET ins == insert_processed(processed, body.order_id,
                                        <<"RES", body.order_id>>, "reserved")
            IN IF ~ins.ok THEN same("raise")
               ELSE [outcome |-> IF publish_ok THEN "ack" ELSE "raise",
                     inventory |-> [inventory EXCEPT
                                        ![body.item] = @ - qty.value],
                     processed |-> ins.table,
                     reserved |-> TRUE,
                     event |-> IF publish_ok THEN "inventory.reserved"
                               ELSE None]

\* the variables of the analytics consumer
analyticsVars == <<now, deduper, metrics, ret, lastFalse, trackedAt,
                   inventoryLog, workerVars, lockVars, processVars>>

\* the analytics consumer takes no part in the two other labs
AnalyticsAbsent ==
    /\ now = 0 /\ deduper = None /\ metrics = None /\ ret = None
    /\ lastFalse = None /\ trackedAt = None /\ inventoryLog = None
    /\ pc = None /\ stop = FALSE /\ consumer = None /\ msg = None
    /\ err = None /\ log = <<>> /\ pos = 0 /\ committed = 0
    /\ last = None /\ recorded = {} /\ recordedAt = None
    /\ lock = None /\ call = None /\ completed = None
    /\ ProcessAbsent

\* the values /configure sets fault['failure_rate'] to, in percent
FailureRates == {0, 50, 100}

\* random.random() < fault['failure_rate'], for the rates above
Strikes(failure_rate) ==
    CASE failure_rate = 0 -> {FALSE}
      [] failure_rate = 100 -> {TRUE}
      [] OTHER -> BOOLEAN

\* the service after init_db() on a fresh volume and start_consumer(): the
\* orders.reserve queue and its dead-letter queue are empty, every item is
\* stocked, no order was processed, no fault is configured, no event was
\* published to the inventory exchange (events holds the order_id and the
\* routing key of each)
InitAmqp ==
    /\ AnalyticsAbsent
    /\ rest = None
    /\ amqp = [queue |-> <<>>, unacked |-> NoBody, dlq |-> <<>>,
               inventory |-> [i \in Items |-> Stock],
               processed |-> EmptyDict,
               consuming |-> TRUE,
               failure_rate |-> 0,
               published |-> 0,
               reservations |-> [o \in PlacedIds |-> 0],
               events |-> {},
               last |-> [body |-> NoBody, outcome |-> "none",
                         known |-> FALSE, inject |-> FALSE,
                         inventory |-> [i \in Items |-> Stock],
                         processed |-> EmptyDict]]

\* a producer publishes a body to the orders exchange with the routing key
\* order.placed, which the binding routes to orders.reserve
AmqpPublish(body) ==
    /\ amqp.published < MaxPublished
    /\ amqp' = [amqp EXCEPT !.queue = Append(@, body),
                            !.published = @ + 1]
    /\ UNCHANGED <<analyticsVars, rest>>

\* POST /configure
AmqpConfigure(failure_rate) ==
    /\ amqp.failure_rate # failure_rate
    /\ amqp' = [amqp EXCEPT !.failure_rate = failure_rate]
    /\ UNCHANGED <<analyticsVars, rest>>

\* the broker delivers the head of orders.reserve (prefetch_count=1: one
\* unacknowledged delivery at a time) and the callback handles it
Callback(inject, publish_ok) ==
    /\ amqp.consuming
    /\ amqp.unacked = NoBody
    /\ amqp.queue # <<>>
    /\ inject \in Strikes(amqp.failure_rate)
    /\ LET body == Head(amqp.queue)
           r == callback(body, amqp.inventory, amqp.processed,
                         inject, publish_ok)
       IN amqp' = [amqp EXCEPT
              !.queue = IF r.outcome = "nack" THEN @ ELSE Tail(@),
              !.unacked = IF r.outcome = "raise" THEN body ELSE NoBody,
              !.dlq = IF r.outcome = "reject" THEN Append(@, body) ELSE @,
              !.consuming = r.outcome # "raise",
              !.inventory = r.inventory,
              !.processed = r.processed,
              !.events = IF r.event = None THEN @
                         ELSE @ \cup {<<body.order_id, r.event>>},
              !.reservations = IF r.reserved
                               THEN [@ EXCEPT ![body.order_id] = @ + 1]
                               ELSE @,
              !.last = [body |-> body, outcome |-> r.outcome,
                        known |-> body.kind = "map"
                                  /\ ~Falsy(Get(body.item))
                                  /\ int(body.qty).ok
                                  /\ body.order_id \in DOMAIN amqp.processed,
                        inject |-> inject,
                        inventory |-> amqp.inventory,
                        processed |-> amqp.processed]]
    /\ UNCHANGED <<analyticsVars, rest>>

\* the service is started again after its consumer thread died: the broker
\* puts the unacknowledged delivery back at the head of the queue, the
\* database file is kept, the fault dict starts from its defaults
AmqpRestart ==
    /\ ~amqp.consuming
    /\ amqp' = [amqp EXCEPT !.queue = <<amqp.unacked>> \o @,
                            !.unacked = NoBody,
                            !.consuming = TRUE,
                            !.failure_rate = 0]
    /\ UNCHANGED <<analyticsVars, rest>>

NextAmqp ==
    \/ \E body \in Bodies : AmqpPublish(body)
    \/ \E failure_rate \in FailureRates : AmqpConfigure(failure_rate)
    \/ \E inject \in BOOLEAN, publish_ok \in BOOLEAN :
           Callback(inject, publish_ok)
    \/ AmqpRestart

SpecAmqp == InitAmqp /\ [][NextAmqp]_vars

(* ------------- src/sync-rest: order and inventory services ------------- *)

\* DOWNSTREAM_TIMEOUT, in seconds
DOWNSTREAM_TIMEOUT == 5

\* the delays /configure sets fault_config["delay"] to, in seconds: none,
\* and the one of the failure injection test
Delays == {0, 10}

\* the items and quantities of the order requests: a stocked item, one that
\* is not stocked, no item; the number 1, a number above the stock ("many"),
\* the JSON string "two", no qty
OrderItems == {"burger", "ramen", Absent}
OrderQtys == {"1", "many", "two", Absent}

\* data.get(key, default)
get(v, default) == IF v = Absent THEN default ELSE v

\* inventory[item] < qty: comparing an int with a str raises TypeError
\* (ok = FALSE)
less(available, qty) ==
    CASE qty = "1" -> [ok |-> TRUE, value |-> available < 1]
      [] qty = "many" -> [ok |-> TRUE, value |-> available < Stock + 1]
      [] OTHER -> [ok |-> FALSE, value |-> FALSE]

\* what requests gives the caller: a response with its status code and
\* whether its body is JSON, or the Timeout or ConnectionError it raises
Response(status_code, json) ==
    [kind |-> "response", status_code |-> status_code, json |-> json]
Timeout == [kind |-> "Timeout", status_code |-> 0, json |-> FALSE]
ConnectionError ==
    [kind |-> "ConnectionError", status_code |-> 0, json |-> FALSE]

\* POST /reserve of the inventory service: the response and the inventory
\* it leaves.  An exception in the view makes Flask answer 500 with an HTML
\* page
reserve(inventory, item, qty, inject) ==
    LET answer(status_code, json) ==
            [response |-> Response(status_code, json),
             inventory |-> inventory]
        q == get(qty, "1")
    IN IF inject THEN answer(500, TRUE)
       ELSE IF item \notin DOMAIN inventory THEN answer(404, TRUE)
       ELSE IF ~less(inventory[item], q).ok THEN answer(500, FALSE)
       ELSE IF less(inventory[item], q).value THEN answer(409, TRUE)
       ELSE [response |-> Response(200, TRUE),
             inventory |-> [inventory EXCEPT ![item] = @ - 1]]

\* http_client.post(INVENTORY_URL/reserve, timeout=DOWNSTREAM_TIMEOUT) as
\* the order service sees it: the inventory service handles the request
\* also when the caller has stopped waiting for the answer
post_reserve(inventory, item, qty, up, delay, inject) ==
    IF ~up THEN [response |-> ConnectionError, inventory |-> inventory]
    ELSE LET r == reserve(inventory, item, qty, inject)
         IN IF delay > DOWNSTREAM_TIMEOUT
            THEN [response |-> Timeout, inventory |-> r.inventory]
            ELSE r

\* inv_response.json(): FALSE stands for the JSONDecodeError
inv_response_json(response) == response.json

\* POST /order: the status code of the answer, what is stored under the
\* order's id and whether the notification service was called.  An
\* exception in the view makes Flask answer 500
create_order(response) ==
    LET failed(reason) == [status |-> "failed", reason |-> reason]
    IN CASE response.kind = "Timeout" ->
              [status_code |-> 504, stored |-> failed("inventory_timeout"),
               notified |-> FALSE]
         [] response.kind = "ConnectionError" ->
              [status_code |-> 503,
               stored |-> failed("inventory_unavailable"),
               notified |-> FALSE]
         [] response.status_code # 200 ->
              [status_code |->
                   IF ~inv_response_json(response) THEN 500
                   ELSE IF response.status_code = 409 THEN 409 ELSE 503,
               stored |-> failed("inventory_error"),
               notified |-> FALSE]
         [] OTHER ->
              [status_code |-> 201,
               stored |-> [status |-> "confirmed", reason |-> None],
               notified |-> TRUE]

\* both services just started: no order stored, every item stocked, no
\* fault configured, no notification sent
InitRest ==
    /\ AnalyticsAbsent
    /\ amqp = None
    /\ rest = [orders |-> <<>>,
               inventory |-> [i \in Items |-> Stock],
               fault_config |-> [delay |-> 0, failure_rate |-> 0],
               notifications |-> 0,
               last |-> [response |-> Response(0, FALSE), status_code |-> 0,
                         order_id |-> 0, notifications |-> 0]]

\* POST /configure of the inventory service
RestConfigure(delay, failure_rate) ==
    /\ rest.fault_config # [delay |-> delay, failure_rate |-> failure_rate]
    /\ rest' = [rest EXCEPT
           !.fault_config = [delay |-> delay, failure_rate |-> failure_rate]]
    /\ UNCHANGED <<analyticsVars, amqp>>

\* POST /order, with the call of the inventory service it makes and, for a
\* reserved order, the call of the notification service.  The order ids
\* (uuid4) are the positions in the store
CreateOrder(item, qty, up, inject) ==
    /\ Len(rest.orders) < MaxOrders
    /\ inject \in Strikes(rest.fault_config.failure_rate)
    /\ LET inv == post_reserve(rest.inventory, item, qty, up,
                               rest.fault_config.delay, inject)
           r == create_order(inv.response)
       IN rest' = [rest EXCEPT
              !.orders = Append(@, r.stored),
              !.inventory = inv.inventory,
              !.notifications = IF r.notified THEN @ + 1 ELSE @,
              !.last = [response |-> inv.response,
                        status_code |-> r.status_code,
                        order_id |-> Len(rest.orders) + 1,
                        notifications |-> rest.notifications]]
    /\ UNCHANGED <<analyticsVars, amqp>>

NextRest ==
    \/ \E delay \in Delays, failure_rate \in FailureRates :
           RestConfigure(delay, failure_rate)
    \/ \E item \in OrderItems, qty \in OrderQtys,
           up \in BOOLEAN, inject \in BOOLEAN :
           CreateOrder(item, qty, up, inject)

SpecRest == InitRest /\ [][NextRest]_vars

\* C38: whenever the order service stores an order with status failed, the
\* inventory service has not decremented the stock for that order, and does
\* not decrement it later: the request leaves the inventory as it was
C38_FailedOrderLeavesStock ==
    [][(/\ Len(rest'.orders) = Len(rest.orders) + 1
        /\ rest'.orders[Len(rest'.orders)].status = "failed")
       => rest'.inventory = rest.inventory]_vars

(* ------------- the structure of the window and the filter ------------- *)

\* the timestamps of a queue of (timestamp, key) pairs never decrease
NonDecreasing(order) ==
    \A i, j \in 1..Len(order) : i < j => order[i][1] <= order[j][1]

\* C39: while the clock does not go back, every key of the unique-order
\* window's map has an entry in its queue with exactly the map's timestamp;
\* the identities the dedup filter holds are the identities in its queue,
\* each of them once; and the timestamps of both queues never decrease
C39_WindowAndFilterStructure ==
    LET w == metrics.order_window
        f == deduper
    IN /\ \A k \in DOMAIN w.entries :
              \E i \in 1..Len(w.order) : w.order[i] = <<w.entries[k], k>>
       /\ DOMAIN f.seen = {f.order[i][2] : i \in 1..Len(f.order)}
       /\ \A i, j \in 1..Len(f.order) :
              f.order[i][2] = f.order[j][2] => i = j
       /\ NonDecreasing(w.order)
       /\ NonDecreasing(f.order)

\* the window has evicted a key it tracked and keeps, in its queue, a
\* superseded entry of a key its map holds with a later timestamp; the filter
\* has evicted an identity it registered and holds another
C39_Witness ==
    LET w == metrics.order_window
        f == deduper
    IN /\ \E k \in OrderIds :
              trackedAt[k] # NoTime /\ k \notin DOMAIN w.entries
       /\ \E i \in 1..Len(w.order) :
              /\ w.order[i][2] \in DOMAIN w.entries
              /\ w.entries[w.order[i][2]] > w.order[i][1]
       /\ \E id \in FilterIds :
              lastFalse[id] # NoTime /\ id \notin DOMAIN f.seen
       /\ f.order # <<>>

(* ------------------ claims about delivery and commit ------------------ *)

\* the poll has just delivered the message at offset i, which is on the
\* order or the inventory topic and decodes to a map
DeliveredMap(i) ==
    /\ pc = "handle" /\ msg.offset = i
    /\ msg.m.topic \in {ORDER_TOPIC, INVENTORY_TOPIC}
    /\ decode_payload(msg.m.value).ok /\ decode_payload(msg.m.value).dict

\* the delivery of the message at offset i has been handled and committed:
\* run() is back at its loop test
HandledAndCommitted(i) ==
    /\ pc = "loop" /\ msg.offset = i /\ last.offset = i /\ committed = i

\* C34: when the worker is scheduled, every message a poll delivers on the
\* order or the inventory topic that decodes to a map is eventually handled
\* and its offset committed, unless a stop is signalled or a bus error ends
\* the worker; the committed offset changes only by the commit that follows
\* the handling of a message, to the offset of that message
C34_DeliveredIsCommitted ==
    /\ \A i \in 1..(MaxLog + 1) :
          DeliveredMap(i)
            ~> (HandledAndCommitted(i) \/ stop \/ err = "KafkaException")
    /\ [][committed' # committed =>
             /\ pc = "commit" /\ pc' = "loop"
             /\ last.offset = msg.offset
             /\ committed' = msg.offset]_vars

\* two messages were delivered, handled and committed in turn, with no stop
\* and no error
C34_Witness ==
    /\ HandledAndCommitted(2)
    /\ last.outcome \in {"order", "inventory", "duplicate"}
    /\ ~stop /\ err = None

(* -------------------- claims about worker and stop() ------------------- *)

\* C33: no poll, commit or wakeup is invoked on the bus client after the
\* worker has closed it -- the worker is at a poll or a commit only with the
\* client open, and stop() invokes wakeup only on a client that is not
\* closed -- and the worker thread has ended exactly when it has closed the
\* client, which it does once
C33_NoUseAfterClose ==
    /\ pc \in {"poll", "handle", "commit", "sleep"} => consumer = "open"
    /\ process.wakeup # "closed"
    /\ pc = "done" <=> consumer = "closed"

(* ------------------ claims about the PeriodicReporter ------------------ *)

\* C31 as stated: once stop() has been called the reporter takes no further
\* snapshot and prints no further summary line
C31_NoReportAfterStop ==
    reporterStop => /\ process.snapshots = process.snapshotsAtStop
                    /\ process.lines = process.linesAtStop

\* C31: once stop() has been called the reporter begins no further report:
\* it takes a snapshot afterwards only if its wait had timed out before the
\* call and it had not taken the snapshot yet, and prints a line afterwards
\* only for that report or the one it was printing; its thread ends at the
\* clock value at which its wait finds the flag set, without waiting for
\* the rest of the interval.  Before the stop every wait times out after
\* one interval and is followed by one snapshot and one line
C31_StopsPromptly ==
    /\ reporterStop =>
          /\ process.snapshots - process.snapshotsAtStop
                 <= (IF process.atStop = "snapshot" THEN 1 ELSE 0)
          /\ process.lines - process.linesAtStop
                 <= (IF process.atStop \in {"snapshot", "print"}
                     THEN 1 ELSE 0)
    /\ reporter = "done" =>
          process.doneAt = Max(process.stopAt, process.since)
    /\ reporter \in {"wait", "done"} =>
          /\ process.timeouts = process.snapshots
          /\ process.snapshots = process.lines
    /\ reporter = "snapshot" =>
          /\ process.timeouts = process.snapshots + 1
          /\ process.snapshots = process.lines
    /\ reporter = "print" =>
          /\ process.timeouts = process.snapshots
          /\ process.snapshots = process.lines + 1
    /\ (reporter = "wait" /\ ~reporterStop) =>
          now <= process.since + process.interval

\* the reporter reported once, was stopped during its second wait and ended
\* then, before the interval was over
C31_Witness ==
    /\ reporter = "done"
    /\ process.atStop = "wait"
    /\ process.lines >= 1
    /\ process.snapshots = process.snapshotsAtStop
    /\ process.doneAt = process.stopAt
    /\ process.doneAt < process.since + process.interval

(* ---------------- claims about the inventory service ------------------ *)

\* the orders whose processed_orders row says they were reserved
ReservedOrders ==
    {o \in DOMAIN amqp.processed : amqp.processed[o].status = "reserved"}

\* the last callback handled a well-formed OrderPlaced message whose
\* order_id had a processed_orders row already
LaterDelivery == amqp.last.outcome # "none" /\ amqp.last.known

\* the last callback left the inventory and processed_orders as they were
DatabaseUntouched ==
    /\ amqp.inventory = amqp.last.inventory
    /\ amqp.processed = amqp.last.processed

\* C23 as stated: every later delivery of an order that was reserved is
\* acked without reserving again
C23_EveryLaterDeliveryAcked ==
    (LaterDelivery /\ amqp.last.body.order_id \in ReservedOrders)
        => (amqp.last.outcome = "ack" /\ DatabaseUntouched)

\* C23: however often the OrderPlaced messages of an order are delivered,
\* the order is reserved at most once, exactly once when its one
\* processed_orders row says "reserved"; every reserved order took its
\* quantity (1) from the stock once; and a delivery for an order that has
\* a row already leaves the inventory and processed_orders untouched and is
\* acked, or is nacked for redelivery when the injected failure strikes
C23_ReservedOnce ==
    /\ \A o \in PlacedIds :
          /\ amqp.reservations[o] <= 1
          /\ amqp.reservations[o] = 1 <=> o \in ReservedOrders
    /\ amqp.inventory["burger"] = Stock - Cardinality(ReservedOrders)
    /\ LaterDelivery =>
          /\ DatabaseUntouched
          /\ \/ amqp.last.outcome = "ack"
             \/ amqp.last.inject /\ amqp.last.outcome = "nack"

\* an order reserved once is delivered again and acked, the stock one
\* below the seed
C23_Witness ==
    /\ LaterDelivery
    /\ amqp.last.outcome = "ack"
    /\ amqp.last.body.order_id \in ReservedOrders
    /\ amqp.reservations[amqp.last.body.order_id] = 1
    /\ amqp.inventory["burger"] = Stock - 1

\* a message of the order is still with the broker: queued, or delivered
\* and not acknowledged
StillDeliverable(o) ==
    \/ amqp.unacked.order_id = o
    \/ \E i \in 1..Len(amqp.queue) : amqp.queue[i].order_id = o

\* C37: for every order_id that has a row in processed_orders, an
\* inventory.reserved or inventory.failed event has been published -- the
\* one matching the row's status -- or a message of the order is still to be
\* delivered, so that the event can still follow
C37_RowHasEvent ==
    \A o \in DOMAIN amqp.processed :
        \/ <<o, IF amqp.processed[o].status = "reserved"
                THEN "inventory.reserved" ELSE "inventory.failed">>
              \in amqp.events
        \/ StillDeliverable(o)

\* a body that is not valid JSON, or a JSON object without order_id or
\* without item
Malformed(body) ==
    \/ body.kind = "badjson"
    \/ body.kind = "map" /\ (body.order_id = Absent \/ body.item = Absent)

\* C24: a message that is not valid JSON or lacks order_id or item is
\* rejected without requeue, so it is neither acked nor requeued; it changes
\* neither the inventory nor processed_orders, and the consumer is still
\* consuming when the callback is over
C24_MalformedIsDeadLettered ==
    (amqp.last.outcome # "none" /\ Malformed(amqp.last.body))
        => /\ amqp.last.outcome = "reject"
           /\ DatabaseUntouched
           /\ amqp.unacked # amqp.last.body

(* ------------- claims about the synchronous order service ------------- *)

\* the order request handled last, as the order store holds it
LastOrder == rest.orders[rest.last.order_id]

\* C25: when the inventory call returns 500 the order request returns 503,
\* when it returns 409 the order request returns 409, when it times out the
\* order request returns 504, and in each case the order is stored with
\* status failed and the notification service is not called
C25_FailurePropagation ==
    LET inv == rest.last.response IN
    /\ (inv.kind = "response" /\ inv.status_code = 500)
          => rest.last.status_code = 503
    /\ (inv.kind = "response" /\ inv.status_code = 409)
          => rest.last.status_code = 409
    /\ inv.kind = "Timeout" => rest.last.status_code = 504
    /\ (\/ inv.kind = "response" /\ inv.status_code \in {500, 409}
        \/ inv.kind = "Timeout")
          => /\ LastOrder.status = "failed"
             /\ rest.notifications = rest.last.notifications

(* ----------------------- claims about the worker ----------------------- *)

\* the message decodes to a map and arrived on a subscribed topic, so that
\* handling it makes one record_* call
HasEffect(m) ==
    /\ m.value.kind \in {"none", "map"}
    /\ m.topic \in {ORDER_TOPIC, INVENTORY_TOPIC}

\* the bytes of the message are not UTF-8 encoded JSON
Undecodable(m) == m.value.kind \in {"empty", "badutf8", "badjson"}

\* the worker thread takes the step that runs _handle_message
HandleStep == pc = "handle" /\ pc' # "handle"

(* C1: the offset of a message is committed only after the record_order /
   record_inventory / record_duplicate call that handling it makes has
   completed: every committed offset whose message has an effect on the
   aggregator has been recorded, and so has the message about to be
   committed. *)
C1_CommitAfterRecord ==
    /\ \A i \in 1..committed : HasEffect(log[i]) => i \in recorded
    /\ (pc = "commit" /\ HasEffect(msg.m)) => msg.offset \in recorded

\* a recorded order or inventory event whose offset has been committed
C1_Witness ==
    /\ pc = "loop"
    /\ last.outcome \in {"order", "inventory"}
    /\ committed = last.offset
    /\ HasEffect(log[committed])
    /\ committed \in recorded

(* C2: when the payload of a polled message fails to decode, the worker does
   not commit: once it is back at polling the committed offset equals the
   committed offset before the message was handled. *)
C2_DecodeFailureNotCommitted ==
    (last.outcome = "decode_error" /\ pc \in {"loop", "poll"}) =>
        committed = last.committed

(* C3: handling a message whose payload fails to decode changes neither the
   aggregator (lifetime counters, order window, failure window) nor the
   identities the dedup filter holds, so the snapshot taken at a fixed clock
   value is the same after it as before. *)
C3_DecodeFailureFrame ==
    [][(HandleStep /\ Undecodable(msg.m)) =>
          /\ metrics' = metrics
          /\ deduper' = deduper
          /\ MetricsAggregator_snapshot(metrics', now', now', now', now').snapshot
               = MetricsAggregator_snapshot(metrics, now', now', now', now').snapshot
      ]_vars

\* a decode failure handled by a worker that holds recorded state
C3_Witness ==
    /\ last.outcome = "decode_error"
    /\ pc = "commit"
    /\ Undecodable(msg.m)
    /\ metrics.stats.orders + metrics.stats.inventory > 0
    /\ DOMAIN deduper.seen # {}

(* C32: handling a successfully decoded message on a topic that is neither
   the order topic nor the inventory topic changes no lifetime counter and
   no window: the snapshot taken at a fixed clock value is the same after it
   as before. *)
C32_OtherTopicFrame ==
    [][(/\ HandleStep
        /\ msg.m.topic \notin {ORDER_TOPIC, INVENTORY_TOPIC}
        /\ decode_payload(msg.m.value).ok) =>
          /\ metrics'.stats = metrics.stats
          /\ MetricsAggregator_snapshot(metrics', now', now', now', now').snapshot
               = MetricsAggregator_snapshot(metrics, now', now', now', now').snapshot
      ]_vars

\* orders_total + inventory_total + duplicates_total
LifetimeTotal(m) == m.stats.orders + m.stats.inventory + m.stats.duplicates

(* C35: every message that decoded successfully, arrived on the order or the
   inventory topic and was handled adds one to exactly one of the three
   lifetime counters; nothing else changes a counter, and no counter ever
   decreases -- so between messages the three counters add up to the number
   of such messages. *)
C35_CounterConservation ==
    [][LET counted == /\ HandleStep /\ pc' = "commit"
                      /\ msg.m.topic \in {ORDER_TOPIC, INVENTORY_TOPIC}
                      /\ decode_payload(msg.m.value).ok
       IN /\ metrics'.stats.orders >= metrics.stats.orders
          /\ metrics'.stats.inventory >= metrics.stats.inventory
          /\ metrics'.stats.duplicates >= metrics.stats.duplicates
          /\ LifetimeTotal(metrics')
               = LifetimeTotal(metrics) + (IF counted THEN 1 ELSE 0)
      ]_vars

(* C4: of the deliveries of messages with one derived identity, the first
   makes exactly one business-metric update (record_order or
   record_inventory) and leaves duplicates_total as it is; every delivery
   within ttl seconds of a delivery that made the update adds one to
   duplicates_total and changes neither window nor the other counters, so
   orders_per_min and failure_rate_pct at a fixed clock value are the same;
   a redelivery of a recorded offset is such a delivery. *)
C4_DuplicateIdempotent ==
    [][(HandleStep /\ HasEffect(msg.m)) =>
          LET m  == msg.m
              id == event_id(m.topic, m.key, decode_payload(m.value))
              st == metrics.stats
          IN /\ id \notin DOMAIN recordedAt =>
                   /\ metrics'.stats.duplicates = st.duplicates
                   /\ \/ /\ metrics'.stats.orders = st.orders + 1
                         /\ metrics'.stats.inventory = st.inventory
                      \/ /\ metrics'.stats.orders = st.orders
                         /\ metrics'.stats.inventory = st.inventory + 1
             /\ (id \in DOMAIN recordedAt /\ now - recordedAt[id] <= deduper.ttl) =>
                   /\ metrics'.stats.duplicates = st.duplicates + 1
                   /\ metrics'.stats.orders = st.orders
                   /\ metrics'.stats.inventory = st.inventory
                   /\ metrics'.order_window = metrics.order_window
                   /\ metrics'.failure_window = metrics.failure_window
      ]_vars

\* the redelivery of an offset that was recorded before, counted as a
\* duplicate for the second time
C4_Witness ==
    /\ last.outcome = "duplicate"
    /\ last.again
    /\ last.duplicates >= 1
    /\ metrics.stats.duplicates = last.duplicates + 1
    /\ metrics.stats.orders + metrics.stats.inventory = 1

(* C5: a message the dedup filter reports as a duplicate is recorded with
   record_duplicate and its offset is committed before the worker polls
   again. *)
C5_DuplicateCommitted ==
    (last.outcome = "duplicate" /\ pc \in {"loop", "poll"}) =>
        /\ committed = last.offset
        /\ metrics.stats.duplicates > last.duplicates

\* the worker polls again after a duplicate
C5_Witness ==
    /\ last.outcome = "duplicate"
    /\ pc = "poll"
    /\ committed = last.offset

(* ------------- claims about the handling of one message ---------------- *)

\* the worker is about to commit the message it has just recorded as an order
OrderRecorded ==
    /\ pc = "commit"
    /\ last.outcome = "record_order"
    /\ last.offset = msg.offset

(* C21: for an order-topic event that is no duplicate, the identifier handed
   to record_order is the text of the payload's order_id when the payload
   has that field, otherwise the key when the message has a non-empty key,
   otherwise none; the lifetime orders counter goes up by one in every
   case, and when the identifier is none (or empty) the order window is left
   as it was, so orders_per_min is unchanged; otherwise the window holds the
   identifier with the time of the call. *)
C21_OrderIdentifierResolution ==
    OrderRecorded =>
        LET m == msg.m
            id == call.arg
            before == last.before
        IN /\ m.topic = ORDER_TOPIC
           /\ id = (IF m.value.order_id # Absent THEN Str(m.value.order_id)
                    ELSE IF m.key \notin {None, ""} THEN m.key
                    ELSE None)
           /\ metrics.stats.orders = before.stats.orders + 1
           /\ IF id \in {None, ""}
              THEN /\ metrics.order_window = before.order_window
                   /\ UniqueOrderWindow_per_minute(metrics.order_window,
                                                   now).result
                      = UniqueOrderWindow_per_minute(before.order_window,
                                                     now).result
              ELSE /\ id \in DOMAIN metrics.order_window.entries
                   /\ metrics.order_window.entries[id] = call.t

\* an order without order_id and with an empty key is counted while the
\* window, which holds the key of an earlier order, stays as it is
C21_Witness ==
    /\ OrderRecorded
    /\ msg.m.value.order_id = Absent
    /\ msg.m.key = ""
    /\ call.arg = None
    /\ metrics.stats.orders = 2
    /\ DOMAIN metrics.order_window.entries = {"7"}

(* C30: the worker holds neither the aggregator lock nor the filter lock
   while it is inside a bus call (poll, commit, close): the filter lock is
   held only inside register and the aggregator lock only inside a record_*
   call, and both are given back before _handle_message returns. *)
C30_NoLockAcrossBusCall ==
    /\ pc \in {"start", "poll", "commit", "finally"} =>
           lock # "worker" /\ deduper.lock # "worker"
    /\ lock = "worker" => pc = "recording"
    /\ deduper.lock = "worker" => pc = "registering"

\* the worker commits a message for which it took and left both locks
C30_Witness ==
    /\ pc = "commit"
    /\ last.offset = msg.offset
    /\ last.outcome = "record_inventory"
    /\ last.locked = {"deduper", "metrics"}
    /\ lock = None /\ deduper.lock = None

(* ------------------- claims about the components ----------------------- *)

(* C6: with t0 the time of the registration of id that last returned false,
   a register(id) at a time t with t - t0 <= ttl returns true, and a
   register(id) at a time t with t - t0 > ttl returns false and records id
   again with the timestamp t. *)
C6_RegisterWithinTtl ==
    (ret.op = "register" /\ ret.prev # NoTime) =>
        /\ (ret.at - ret.prev <= deduper.ttl) => (ret.result = TRUE)
        /\ (ret.at - ret.prev > deduper.ttl) =>
               /\ ret.result = FALSE
               /\ ret.id \in DOMAIN deduper.seen
               /\ deduper.seen[ret.id] = ret.at

\* an identity registered again one tick after its ttl ran out
C6_Witness ==
    /\ ret.op = "register"
    /\ ret.prev # NoTime
    /\ ret.at - ret.prev = deduper.ttl + 1
    /\ ret.result = FALSE
    /\ deduper.ttl > 1

(* C7: register(id) returns true only if an earlier register(id) returned
   false no more than ttl seconds before; an identity never registered, or
   registered only more than ttl seconds ago, is reported new. *)
C7_NoFalseDuplicate ==
    (ret.op = "register" /\ ret.result = TRUE) =>
        /\ ret.prev # NoTime
        /\ ret.at - ret.prev <= deduper.ttl

\* a duplicate found although another identity was registered in between
C7_Witness ==
    /\ ret.op = "register"
    /\ ret.result = TRUE
    /\ \E other \in FilterIds \ {ret.id} :
           /\ lastFalse[other] > ret.prev
           /\ lastFalse[other] < ret.at

(* C26: a register(id) that returns true leaves the timestamp recorded for
   id as the registration that returned false set it, and adds no entry: the
   filter holds one queue entry per identity, stamped with the time of the
   registration of that identity that last returned false, so duplicates do
   not extend the ttl. *)
C26_DuplicateLeavesEntryUntouched ==
    /\ \A id \in DOMAIN deduper.seen : deduper.seen[id] = lastFalse[id]
    /\ Len(deduper.order) = Cardinality(DOMAIN deduper.seen)
    /\ \A i \in 1..Len(deduper.order) :
           /\ deduper.order[i][2] \in DOMAIN deduper.seen
           /\ deduper.order[i][1] = deduper.seen[deduper.order[i][2]]
    /\ (ret.op = "register" /\ ret.result = TRUE) =>
           /\ ret.id \in DOMAIN deduper.seen
           /\ deduper.seen[ret.id] = ret.prev

\* a duplicate reported later than the registration it duplicates, while
\* another identity is held too
C26_Witness ==
    /\ ret.op = "register"
    /\ ret.result = TRUE
    /\ ret.at > ret.prev
    /\ deduper.seen[ret.id] = ret.prev
    /\ Len(deduper.order) = 2

\* the keys whose most recent track is no older than the window at time t
LiveKeys(t) ==
    {k \in OrderIds : /\ trackedAt[k] # NoTime
                      /\ t - trackedAt[k] <= metrics.order_window.window}

(* C8: whatever the window size and the calls made so far, the count a read
   of the unique-order window returns (active_orders, per_minute) is the
   number of keys it holds after the read, and none of these keys was last
   tracked more than `window` seconds before the read. *)
C8_CountExcludesExpired ==
    LET w == metrics.order_window IN
    /\ ret.op \in {"active_orders", "per_minute"} =>
           \A k \in DOMAIN w.entries :
               /\ trackedAt[k] # NoTime
               /\ ret.at - trackedAt[k] <= w.window
    /\ ret.op = "active_orders" => ret.result = Cardinality(DOMAIN w.entries)
    /\ ret.op = "per_minute" =>
           ret.result = Frac(Cardinality(DOMAIN w.entries) * 60, w.window)

\* a read that counts one key and leaves out another whose last track expired
C8_Witness ==
    /\ ret.op = "per_minute"
    /\ ret.result.num = 60
    /\ \E k \in OrderIds :
           /\ trackedAt[k] # NoTime
           /\ ret.at - trackedAt[k] > metrics.order_window.window

(* C9: a key tracked at time t is counted by active_orders() at every read
   time in [t, t + window] and is not counted at a read time later than
   t + window, t being its most recent track: the keys counted by a read are
   exactly the keys last tracked within the window. *)
C9_CountedWhileInWindow ==
    ret.op = "active_orders" =>
        /\ DOMAIN metrics.order_window.entries = LiveKeys(ret.at)
        /\ ret.result = Cardinality(LiveKeys(ret.at))

\* one read that still counts a key tracked exactly `window` seconds ago, and
\* no longer counts a key tracked one second earlier
C9_Witness ==
    /\ ret.op = "active_orders"
    /\ ret.result = 1
    /\ \E k1, k2 \in OrderIds :
           /\ trackedAt[k1] # NoTime
           /\ trackedAt[k2] # NoTime
           /\ ret.at = trackedAt[k1] + metrics.order_window.window
           /\ ret.at = trackedAt[k2] + metrics.order_window.window + 1

\* the queue of the window still holds an entry of key k that is older than
\* the most recent track of k: k was tracked, and later tracked again
Retracked(k) ==
    LET q == metrics.order_window.order IN
    /\ trackedAt[k] # NoTime
    /\ \E i \in 1..Len(q) : q[i][2] = k /\ q[i][1] < trackedAt[k]

\* a step that is a read of the unique-order window (active_orders or
\* per_minute): it reads the clock without advancing it and records nothing
WindowRead ==
    /\ ret'.op \in {"active_orders", "per_minute"}
    /\ now' = now
    /\ metrics'.stats = metrics.stats

(* C27: a key k tracked at t1 and again at t2 > t1 is counted exactly once
   by every read, keeps being counted by a read that drops the older entry
   of t1, with the timestamp t2, and is counted by a read at time t exactly
   when t <= t2 + window. *)
C27_RetrackRefreshesMembership ==
    [][ \A k \in OrderIds :
          (WindowRead /\ Retracked(k)) =>
              LET after == metrics'.order_window IN
              /\ (now - trackedAt[k] <= after.window) =>
                     /\ k \in DOMAIN after.entries
                     /\ after.entries[k] = trackedAt[k]
                     /\ \A i \in 1..Len(after.order) :
                            after.order[i][2] = k =>
                                now - after.order[i][1] <= after.window
              /\ (now - trackedAt[k] > after.window) =>
                     k \notin DOMAIN after.entries
              /\ DOMAIN after.entries = LiveKeys(now)
              /\ ret'.op = "active_orders" =>
                     ret'.result = Cardinality(LiveKeys(now))
              /\ ret'.op = "per_minute" =>
                     ret'.result =
                         Frac(Cardinality(LiveKeys(now)) * 60, after.window)
      ]_vars

\* a key tracked twice whose older entry has expired while its newer one is
\* still within the window: the next read drops the older entry
C27_Witness ==
    \E k \in OrderIds :
        LET w == metrics.order_window IN
        /\ Retracked(k)
        /\ ret.op = "record_order"
        /\ ret.at = trackedAt[k]
        /\ Head(w.order)[2] = k
        /\ now - Head(w.order)[1] > w.window
        /\ now - trackedAt[k] <= w.window

(* C36: for every configured window size, the window_seconds a snapshot
   reports is the window length both windows use for eviction, and the
   snapshot's orders_per_min is active_orders * 60 / window_seconds for the
   reported window_seconds, active_orders being the keys the order window
   holds when the snapshot has evicted the expired ones. *)
C36_ReportedWindowIsUsedWindow ==
    [][(ret'.op = "snapshot" /\ ret' # ret) =>
          LET snap == ret'.snapshot
              active == Cardinality(DOMAIN metrics'.order_window.entries)
          IN /\ snap.window_seconds = metrics'.order_window.window
             /\ snap.window_seconds = metrics'.failure_window.window
             /\ FracEq(snap.orders_per_min,
                       Frac(active * 60, snap.window_seconds))
      ]_vars

(* C10: in every snapshot, failure_rate_pct equals 100 * failures /
   inventory_events when inventory_events > 0 and equals 0 when it is 0,
   also when the clock advances while the snapshot is built. *)
C10_SnapshotRateConsistent ==
    ret.op = "snapshot" =>
        LET s == ret.snapshot IN
        IF s.inventory_events > 0
        THEN FracEq(s.failure_rate_pct, Frac(100 * s.failures, s.inventory_events))
        ELSE s.failure_rate_pct.num = 0

\* how many steps run() is away, at most, from its end once the stop flag is
\* set: poll, sleep or handle and commit, loop test, finally, done
StepsLeft(at) ==
    CASE at = "start" -> 7 [] at = "poll" -> 6 [] at = "sleep" -> 5
      [] at = "handle" -> 4 [] at = "commit" -> 3 [] at = "loop" -> 2
      [] at = "finally" -> 1 [] at = "done" -> 0

(* C14: once stop() has been called the worker never enters poll again:
   every step it takes brings run() closer to its end, through at most the
   return of the poll it was blocked in, the handling and the commit of the
   one message that poll delivered (or the sleep after the unknown-topic
   error it returned), the loop test and the close; the stop
   flag stays set and the committed offset never decreases. *)
C14_StopWithinOnePoll ==
    [][/\ committed' >= committed
       /\ stop => stop'
       /\ (stop /\ pc' # pc) => StepsLeft(pc') < StepsLeft(pc)]_vars

\* stop() was called while the worker was blocked in poll, offsets having
\* been committed before and a message still to be delivered
C14_Witness ==
    /\ stop /\ pc = "poll"
    /\ committed > 0
    /\ pos < Len(log)

\* the step leaves the committed offset, the aggregator, the filter, the
\* consumer and the worker's exception as they are
Absorbed ==
    /\ committed' = committed
    /\ metrics' = metrics
    /\ deduper' = deduper
    /\ consumer' = consumer
    /\ err' = err

(* C18: a poll result that carries an end-of-partition or an unknown-topic
   error is absorbed: the step that takes it, and the sleep that follows the
   unknown-topic error, commit nothing, change neither the aggregator nor
   the filter, raise nothing and leave the consumer open, and the worker
   goes back to the loop test, from where, unless stop() was called, it
   polls again. *)
C18_TransientErrorAbsorbed ==
    [][/\ \A code \in {"_PARTITION_EOF", "UNKNOWN_TOPIC_OR_PART"} :
              PollError(code) => (pc' \in {"loop", "sleep"} /\ Absorbed)
       /\ (pc = "sleep" /\ pc' # pc) => (pc' = "loop" /\ Absorbed)
       /\ (pc = "loop" /\ ~stop /\ pc' # pc) => pc' = "poll"]_vars

\* the worker sleeps after an unknown-topic error, with an offset committed,
\* an event recorded and an exception-free run so far
C18_Witness ==
    /\ pc = "sleep"
    /\ committed > 0
    /\ metrics.stats.orders > 0
    /\ err = None /\ consumer = "open" /\ ~stop

(* C19: the worker leaves its consume loop only because stop() was called
   or because the bus raised an error: whatever the message, handling it
   does not end run(). *)
C19_LoopLeftOnlyOnStopOrBusError ==
    pc \in {"finally", "done"} => (stop \/ err = "KafkaException")

(* C20: a message with no value or a zero-length value is handled as a
   normal event (identity computed, deduplicated, classified, recorded),
   never as a decode error. *)
C20_EmptyPayloadIsNormalEvent ==
    (last.outcome # "none"
        /\ log[last.offset].value.kind \in {"none", "empty"}) =>
        last.outcome \in {"order", "inventory", "duplicate", "ignored"}

(* ------------------------ claims about FailureWindow ------------------- *)

\* every record_inventory call made so far was made at most `window` seconds
\* before the clock value t
AllWithinWindow(t) ==
    /\ inventoryLog.n > 0
    /\ inventoryLog.first >= t - metrics.failure_window.window

(* C11: when the n inventory events tracked so far, f of them flagged
   failure, were all tracked within the current window, totals() returns
   (n, f) and failure_rate_pct() returns 100 * f / n. *)
C11_RateOfEventsInWindow ==
    /\ (ret.op = "totals" /\ AllWithinWindow(ret.at)) =>
           /\ ret.total = inventoryLog.n
           /\ ret.failures = inventoryLog.f
    /\ (ret.op = "failure_rate_pct" /\ AllWithinWindow(ret.at)) =>
           FracEq(ret.result, Frac(100 * inventoryLog.f, inventoryLog.n))

\* three events tracked at different times, one of them a failure, all still
\* within the window when failure_rate_pct() is read
C11_Witness ==
    /\ ret.op = "failure_rate_pct"
    /\ inventoryLog.n = 3 /\ inventoryLog.f = 1
    /\ ret.at > inventoryLog.first
    /\ AllWithinWindow(ret.at)
    /\ FracEq(ret.result, Frac(100, 3))

\* at the clock value t the failure window has no live event: none was ever
\* tracked, or the last one tracked is older than the window
NoLiveEvents(t) ==
    \/ inventoryLog.n = 0
    \/ inventoryLog.last < t - metrics.failure_window.window

(* C12: a read of a window that has no live entry (nothing tracked yet, or
   every entry expired) returns zero and divides by nothing that is zero,
   whatever the configured window size, sizes below 1 included:
   failure_rate_pct() = 0, totals() = (0, 0), active_orders() = 0 and
   per_minute() = 0. *)
C12_EmptyWindowReadsZero ==
    /\ ret.op \in {"failure_rate_pct", "per_minute"} => ret.result.den # 0
    /\ (ret.op = "failure_rate_pct" /\ NoLiveEvents(ret.at)) =>
           ret.result.num = 0
    /\ (ret.op = "totals" /\ NoLiveEvents(ret.at)) =>
           ret.total = 0 /\ ret.failures = 0
    /\ (ret.op = "active_orders" /\ LiveKeys(ret.at) = {}) => ret.result = 0
    /\ (ret.op = "per_minute" /\ LiveKeys(ret.at) = {}) => ret.result.num = 0

\* a window configured below 1 whose entries, failures among them, have all
\* expired, read by failure_rate_pct()
C12_Witness ==
    /\ metrics.window_seconds < 1
    /\ ret.op = "failure_rate_pct"
    /\ inventoryLog.f > 0
    /\ \E k \in OrderIds : trackedAt[k] # NoTime
    /\ NoLiveEvents(ret.at)
    /\ LiveKeys(ret.at) = {}
    /\ ret.result = Frac(0, 1)

\* the positions of the queue `events` whose entry is no older than `window`
\* at time t, and those among them that are flagged as failures
LiveEvents(events, window, t) ==
    {i \in 1..Len(events) : events[i][1] >= t - window}
LiveFailures(events, window, t) ==
    {i \in LiveEvents(events, window, t) : events[i][2]}

(* ---------------------- claims about snapshot() ------------------------ *)

\* a step that is a snapshot() call: it leaves the time it started at and
\* the time it stamped its result with
SnapshotStep ==
    /\ ret'.op = "snapshot"
    /\ ret'.at = now
    /\ ret'.snapshot.generated_at = now'

\* the five fields of a snapshot that do not depend on when it was stamped
SameReading(s1, s2) ==
    /\ FracEq(s1.orders_per_min, s2.orders_per_min)
    /\ s1.inventory_events = s2.inventory_events
    /\ s1.failures = s2.failures
    /\ FracEq(s1.failure_rate_pct, s2.failure_rate_pct)
    /\ s1.window_seconds = s2.window_seconds

(* C22: a snapshot() call changes no lifetime counter; a snapshot taken at
   the clock value of a snapshot, on the aggregator as that snapshot left
   it, reads the same orders_per_min, inventory_events, failures,
   failure_rate_pct and window_seconds; and every snapshot is computed from
   the aggregator as it is when the call is made: it is stamped with the
   current time and counts the events and the keys live at that time. *)
C22_SnapshotHasNoSideEffect ==
    [][ SnapshotStep =>
          LET fw == metrics.failure_window
              s  == ret'.snapshot
          IN /\ metrics'.stats = metrics.stats
             /\ s.window_seconds = metrics.window_seconds
             /\ s.inventory_events =
                    Cardinality(LiveEvents(fw.events, fw.window, now))
             /\ s.failures =
                    Cardinality(LiveFailures(fw.events, fw.window, now))
             /\ (now' = now) =>
                    s.orders_per_min =
                        Frac(Cardinality(LiveKeys(now)) * 60,
                             metrics.order_window.window)
             /\ (now' = now) =>
                    LET again == MetricsAggregator_snapshot(
                                     metrics', now, now, now, now)
                    IN /\ SameReading(s, again.snapshot)
                       /\ again.metrics.stats = metrics.stats
      ]_vars

\* a snapshot served by an aggregator that has counted an order, an
\* inventory event and a duplicate
C22_Witness ==
    /\ ret.op = "snapshot"
    /\ ret.at = now
    /\ ret.snapshot.inventory_events = 1
    /\ ret.snapshot.orders_per_min.num > 0
    /\ metrics.stats = [orders |-> 1, inventory |-> 1, duplicates |-> 1]

\* a step that is a read of the failure window (totals or failure_rate_pct)
FailureRead ==
    /\ ret'.op \in {"totals", "failure_rate_pct"}
    /\ now' = now
    /\ metrics'.stats = metrics.stats

(* C28: after every track, totals and failure_rate_pct call under a
   non-decreasing clock the failure count kept by the window is the number
   of failure-flagged entries it holds and lies between 0 and the number of
   entries; what a read reports is the number of entries that were no older
   than the window when it was made, and the failures among them. *)
C28_FailureCountMatchesEntries ==
    [][ LET before == metrics.failure_window
            after  == metrics'.failure_window
        IN /\ after.failures =
                  Cardinality({i \in 1..Len(after.events) : after.events[i][2]})
           /\ 0 <= after.failures
           /\ after.failures <= Len(after.events)
           /\ FailureRead =>
                  LET total == Cardinality(
                                   LiveEvents(before.events, before.window, now))
                      failures == Cardinality(
                                   LiveFailures(before.events, before.window, now))
                  IN /\ Len(after.events) = total
                     /\ after.failures = failures
                     /\ ret'.op = "totals" =>
                            ret'.total = total /\ ret'.failures = failures
                     /\ ret'.op = "failure_rate_pct" =>
                            FracEq(ret'.result,
                                   IF total = 0 THEN Frac(0, 1)
                                   ELSE Frac(failures * 100, total))
      ]_vars

\* totals() after a failure was evicted, with another failure and a success
\* still in the window
C28_Witness ==
    /\ ret.op = "totals"
    /\ ret.at = now
    /\ inventoryLog.f = 2
    /\ ret.failures = 1
    /\ ret.total = 2

(* ---------------------- claims about the aggregator lock --------------- *)

(* C13: while the worker thread records and the reporter and query threads
   read, every snapshot() is taken with no record call in flight and returns
   what it would return on the aggregator as the completed record calls,
   applied one at a time, leave it; its failures never exceed its
   inventory_events. *)
C13_SnapshotSerializable ==
    ret.op = "snapshot" =>
        /\ ret.inflight = "idle"
        /\ ret.snapshot = ret.expected
        /\ ret.snapshot.failures <= ret.snapshot.inventory_events

\* a snapshot by the query thread that reports the order and the failure of
\* two completed record calls, the worker thread having entered a third
C13_Witness ==
    /\ ret.op = "snapshot" /\ ret.by = "query"
    /\ ret.snapshot.failures = 1
    /\ ret.snapshot.orders_per_min.num > 0
    /\ Records = 2
    /\ call.step = "locked"

(* C29: while the aggregator's lock is held the holder performs no I/O:
   a snapshot() call writes nothing to the bus, the network or the console
   between entering and leaving `with self._lock`. *)
C29_NoIoUnderLock ==
    ret.op = "snapshot" => ret.io = <<>>

(* ------------------------- claims about the process -------------------- *)

\* the shutdown is complete: the worker has left its loop and closed its
\* consumer, the reporter, if there is one, has left its wait, every thread
\* main() started has been joined and the process has exited with status 0
ShutdownComplete ==
    /\ pc = "done" /\ consumer = "closed"
    /\ reporter # None => reporter = "done"
    /\ started \subseteq joined
    /\ main = "exited" /\ exit = 0

(* C15: once the global stop signal is set, the shutdown eventually
   completes: the worker has left its poll loop and closed its bus client,
   the reporter (if one was started) has left its wait, main() has joined
   every thread it started, and the process has exited with status 0. *)
C15_SignalLeadsToShutdown == STOP_EVENT ~> ShutdownComplete

\* the shutdown of the threads main() joins: the worker and the reporter
ShutdownOfJoinedThreads ==
    /\ pc = "done" /\ consumer = "closed"
    /\ reporter # None => reporter = "done"
    /\ (started \ {"http"}) \subseteq joined
    /\ main = "exited" /\ exit = 0

\* a join() of main() raised: the only way to exit status 1 with threads
\* started
JoinRaised == main = "exited" /\ exit = 1 /\ started # {}

\* what does hold of the shutdown: unless a join() raises, it completes for
\* the worker and the reporter, the query server thread being left to end
\* with the process
SignalLeadsToShutdownOfJoinedThreads ==
    STOP_EVENT ~> (ShutdownOfJoinedThreads \/ JoinRaised)

(* C16: once a bus error other than end-of-partition and unknown-topic has
   ended the worker, the process does not exit with the success status. *)
C16_FatalBusErrorExitsNonZero ==
    (pc = "done" /\ err = "KafkaException" /\ pos = 0 /\ main = "exited")
        => exit # 0

(* C17: when a required setting is missing or empty, no worker, query-server
   or reporter thread is ever started, main() goes from loading the settings
   straight to the exit, and the exit status is not zero. *)
C17_MissingSettingExitsEarly ==
    (\E k \in required : environ[k] \in {None, ""}) =>
        /\ started = {} /\ pc = None /\ reporter = None
        /\ main \in {"load_env", "exited"}
        /\ main = "exited" => exit = 1

\* the process has exited with status 1 on an empty ORDER_TOPIC, every other
\* required setting being set
C17_Witness ==
    /\ environ["ORDER_TOPIC"] = ""
    /\ \A k \in required \ {"ORDER_TOPIC"} : environ[k] = "set"
    /\ main = "exited" /\ exit = 1
    /\ started = {}

====
